---- MODULE Spec2Model ----
(***************************************************************************)
(* Model of the document ingestion pipeline of doc_ai:                     *)
(*   - the LLM gateway        (etl/llm_client.py, ask_llm)                 *)
(*   - the structured extractor (etl/pdf_extractor.py, process_single_pdf) *)
(*   - the chunker            (etl/pdf_chunking.py, chunk_page_text and    *)
(*                             chunk_pdf)                                  *)
(*   - the batch extractor    (etl/pdf_extractor.py, process_many_pdfs)    *)
(*   - the response parser    (etl/pdf_extractor.py, safe_json_loads)      *)
(*   - the classifier         (etl/pdf_classifier.py, detect_pdf_type)     *)
(*   - the upload endpoint    (django_app/ingestion/api.py, upload_pdf)    *)
(*   - the persistence loader (pipelines/dlt_pipeline.py,                  *)
(*                             load_document_into_system) and the flow     *)
(*                             around it (pipelines/prefect_pdf_flow.py,   *)
(*                             pdf_ingestion_flow)                         *)
(* Each component has its own specification over its own variables; the    *)
(* variables of the other components stay at their initial values.         *)
(***************************************************************************)
EXTENDS Integers, Sequences, FiniteSets, TLC

VARIABLES
    \* ---- ask_llm ----
    max_retries,   \* the max_retries argument of the call
    attempt,       \* the loop variable of `for attempt in range(max_retries)`
    llm_pc,        \* "start" | "call" | "sleep" | "done"
    llm_calls,     \* the endpoint calls made so far, each with its result
    llm_waits,     \* the backoff sleeps taken so far (seconds)
    llm_out,       \* how the call ended: [kind, text]
    \* ---- chunk_pdf / chunk_page_text ----
    ck_entry,            \* the function called: "chunk_pdf" | "chunk_page_text"
    chunk_size_words,    \* argument
    overlap_words,       \* argument
    ck_pages,            \* the pages of the PDF: [words, alnum] per page
    ck_pc,               \* "page" (head of the page loop) | "loop" | "done"
    page_idx,            \* chunk_pdf: pages read so far
    global_chunk_index,  \* chunk_pdf: the running global index
    chunks,              \* chunk_pdf: the output list
    cpt,                 \* the frame of the current/last chunk_page_text call
    ck_pdf_type,         \* argument pdf_type
    uuid_next,           \* uuid.uuid4(): how many ids have been drawn
    ck_call,             \* which call on this input is running: 1 | 2
    first_call,          \* the list the first call returned
    \* ---- process_single_pdf ----
    pdf_type,            \* classifier["pdf_type"]
    llm_stub,            \* the ways an ask_llm call of this run can end
    doc_pages,           \* the pages of the open PDF, as extract_page_content
                         \* sees them (empty once the file is closed)
    ex_pc,               \* "validate" | "read" | "dispatch" | "single" | "pool" | "flatten" | "done"
    pages_to_process,    \* page numbers that survived the filters, in read order
    workers,             \* max_workers of the page pool (0: no pool)
    page_calls,          \* page number -> the _process_page_with_llm call for it
    all_results_by_page, \* the dict, as its (key, value) entries in insertion order
    structured,          \* the flattened list
    ex_out,              \* how process_single_pdf ended
    \* ---- safe_json_loads ----
    json_raw,            \* the argument raw: the text of an LLM response
    json_out,            \* whether the call was made and the value it returned
    \* ---- process_many_pdfs ----
    pdf_paths,           \* the argument: per path, what classification and
                         \* extraction of that PDF will meet
    many_pc,             \* "classify" | "single" | "pool" | "done"
    jobs,                \* the paths classified so far, in order
    doc_workers,         \* max_workers of the document pool (0: no pool)
    doc_runs,            \* path -> the process_single_pdf call for it
    results,             \* the list returned, as the paths of its entries
    many_out,            \* how process_many_pdfs ended
    \* ---- load_document_into_system ----
    ld_pdf_type,         \* argument pdf_type
    parsed_data,         \* argument parsed_data
    ld_chunks,           \* argument chunks
    ld_step,             \* the statement of lines 206-209 to run next
    document_id,         \* the local document_id (0: not assigned)
    load_count,          \* dlt load packages completed so far
    tables,              \* the Postgres dataset: table name -> rows
    collection,          \* the Chroma collection pdf_chunks: its entries
    embed_calls,         \* the embedding calls made: the number of texts of each
    ld_out,              \* how load_document_into_system ended
    \* ---- pdf_ingestion_flow ----
    flow_pc,             \* "none" (no flow) | "classify" | "extract" | "load" |
                         \* "loading" | "done"
    flow_out,            \* how pdf_ingestion_flow ended
    \* ---- detect_pdf_type ----
    cls_answer,          \* how the ask_llm call of this PDF ends
    cls_pc,              \* "ask" | "parse" | "done"
    cls_calls,           \* ask_llm calls made so far
    cls_out,             \* how detect_pdf_type ended
    \* ---- upload_pdf ----
    request,             \* the POST request: its FILES and the run it meets
    up_pc,               \* "get" | "write" | "flow" | "done"
    saved,               \* the chunks written to save_path
    flow_calls,          \* the pdf_ingestion_flow calls made, by path
    response             \* the Response returned

llmVars == <<max_retries, attempt, llm_pc, llm_calls, llm_waits, llm_out>>

ckVars == <<ck_entry, chunk_size_words, overlap_words, ck_pages, ck_pc, page_idx,
            global_chunk_index, chunks, cpt, ck_pdf_type, uuid_next, ck_call,
            first_call>>

exVars == <<pdf_type, llm_stub, doc_pages, ex_pc, pages_to_process, workers, page_calls,
            all_results_by_page, structured, ex_out, json_raw, json_out>>

manyVars == <<pdf_paths, many_pc, jobs, doc_workers, doc_runs, results, many_out>>

ldVars == <<ld_pdf_type, parsed_data, ld_chunks, ld_step, document_id,
            load_count, tables, collection, embed_calls, ld_out, flow_pc,
            flow_out>>

clsVars == <<cls_answer, cls_pc, cls_calls, cls_out>>

upVars == <<request, up_pc, saved, flow_calls, response>>

vars == <<llmVars, ckVars, exVars, manyVars, ldVars, clsVars, upVars>>

\* ------------------------------------------------------------------------
\* Generic helpers
\* ------------------------------------------------------------------------
Min(a, b) == IF a <= b THEN a ELSE b

Max(a, b) == IF a >= b THEN a ELSE b

RECURSIVE Pow2(_)
Pow2(k) == IF k = 0 THEN 1 ELSE 2 * Pow2(k - 1)

\* Python's `needle in text` on strings (sequences of characters).
Contains(text, needle) ==
    \E i \in 0..(Len(text) - Len(needle)) :
        \A j \in 1..Len(needle) : text[i + j] = needle[j]

\* str.lower(), character by character (the upper-case letters the error
\* texts of the model use).
LowerChar(c) ==
    CASE c = "R" -> "r"
      [] c = "T" -> "t"
      [] c = "H" -> "h"
      [] c = "P" -> "p"
      [] OTHER -> c

Lower(text) == [i \in 1..Len(text) |-> LowerChar(text[i])]

\* ------------------------------------------------------------------------
\* LLM gateway: ask_llm (etl/llm_client.py)
\* ------------------------------------------------------------------------
DefaultMaxRetries == 6

BackoffCap == 15

\* Error texts str(e) the endpoint may raise.
Err429 == <<"H", "T", "T", "P", " ", "4", "2", "9">>
Err503 == <<"H", "T", "T", "P", " ", "5", "0", "3">>
Err500 == <<"H", "T", "T", "P", " ", "5", "0", "0">>
Err401 == <<"H", "T", "T", "P", " ", "4", "0", "1">>
ErrRate == <<"R", "a", "t", "e", " ", "l", "i", "m", "i", "t">>
ErrTemp == <<"T", "e", "m", "p", "o", "r", "a", "r", "i", "l", "y">>

EndpointErrors == {Err429, Err503, Err500, Err401, ErrRate, ErrTemp}

\* Response texts of a successful endpoint call (response.output_text).
EndpointTexts == {<<"[", "]">>, <<"{", "}">>}

EndpointResults ==
    [ok : {TRUE}, text : EndpointTexts] \cup [ok : {FALSE}, text : EndpointErrors]

ExhaustedText == <<"f", "a", "i", "l", "e", "d">>

NoOutcome == [kind |-> "none", text |-> <<>>]

\* The condition of the `if` at lines 56-61.
RetryAlways(err) == TRUE

IsRetryable(err) ==
    \/ Contains(err, <<"4", "2", "9">>)
    \/ Contains(err, <<"5", "0", "3">>)
    \/ Contains(Lower(err), <<"r", "a", "t", "e", " ", "l", "i", "m", "i", "t">>)
    \/ Contains(Lower(err), <<"t", "e", "m", "p", "o", "r", "a", "r", "i", "l", "y">>)

\* wait = min(2 ** attempt, 15)
UncappedWait(k) == Pow2(k)

BackoffWait(k) == Min(Pow2(k), BackoffCap)

LoopHeadOffByOne(a) ==
    IF a <= max_retries
    THEN /\ llm_pc' = "call"
         /\ attempt' = a
         /\ llm_out' = llm_out
    ELSE /\ llm_pc' = "done"
         /\ attempt' = attempt
         /\ llm_out' = [kind |-> "exhausted", text |-> ExhaustedText]

\* The head of `for attempt in range(max_retries)` for loop value a: another
\* iteration, or the loop is over and line 71 raises the RuntimeError.
LoopHead(a) ==
    IF a < max_retries
    THEN /\ llm_pc' = "call"
         /\ attempt' = a
         /\ llm_out' = llm_out
    ELSE /\ llm_pc' = "done"
         /\ attempt' = attempt
         /\ llm_out' = [kind |-> "exhausted", text |-> ExhaustedText]

LLMStart(m) ==
    /\ max_retries = m
    /\ attempt = 0
    /\ llm_pc = "start"
    /\ llm_calls = <<>>
    /\ llm_waits = <<>>
    /\ llm_out = NoOutcome

LLMInit == \E m \in 0..DefaultMaxRetries : LLMStart(m)

\* ask_llm is entered: the for loop starts.
LLMEnter ==
    /\ llm_pc = "start"
    /\ LoopHead(0)
    /\ UNCHANGED <<max_retries, llm_calls, llm_waits, ckVars, exVars, manyVars, ldVars, clsVars, upVars>>

\* Outcome kind of an endpoint error that is not retried (line 68: raise).
WrapAsExhausted(err) == [kind |-> "exhausted", text |-> ExhaustedText]

Reraise(err) == [kind |-> "reraised", text |-> err]

\* One endpoint call (lines 41-68) with result r.
EndpointCall(r) ==
    /\ llm_pc = "call"
    /\ llm_calls' = Append(llm_calls, r)
    /\ IF r.ok
       THEN /\ llm_pc' = "done"
            /\ llm_out' = [kind |-> "returned", text |-> r.text]
       ELSE IF IsRetryable(r.text)
            THEN /\ llm_pc' = "sleep"
                 /\ llm_out' = llm_out
            ELSE /\ llm_pc' = "done"
                 /\ llm_out' = Reraise(r.text)
    /\ UNCHANGED <<max_retries, attempt, llm_waits, ckVars, exVars, manyVars, ldVars, clsVars, upVars>>

LLMCall == \E r \in EndpointResults : EndpointCall(r)

\* time.sleep(wait); continue (lines 62-65), then the loop head.
BackoffSleep ==
    /\ llm_pc = "sleep"
    /\ llm_waits' = Append(llm_waits, BackoffWait(attempt))
    /\ LoopHead(attempt + 1)
    /\ UNCHANGED <<max_retries, llm_calls, ckVars, exVars, manyVars, ldVars, clsVars, upVars>>

LLMNext == LLMEnter \/ LLMCall \/ BackoffSleep


\* ------------------------------------------------------------------------
\* Chunker: chunk_page_text and chunk_pdf (etl/pdf_chunking.py)
\* ------------------------------------------------------------------------
DefaultChunkSizeWords == 400

DefaultOverlapWords == 50

MaxWords == 4          \* words on a page (small windows)

MaxDefaultWords == 1160 \* words on a page (default window of 400 words)

MaxChunkSize == 3

MaxOverlap == 3

MaxChunkPages == 3

MaxStartIndex == 2

ChunkCap == 6          \* iterations of the window loop the model follows

\* A page as extract_page_content returns it: the number of whitespace
\* separated words of its text, and whether any character is alphanumeric.
\* A text with an alphanumeric character has at least one word.
PageOf(n, a) == [words |-> n, alnum |-> a]

SmallPages ==
    {PageOf(n, TRUE) : n \in 1..MaxWords} \cup {PageOf(n, FALSE) : n \in 0..1}

NoCall ==
    [page |-> 0, n |-> 0, gstart |-> 0, start |-> 0, local_index |-> 0,
     global_index |-> 0, chunks |-> <<>>, returned |-> FALSE]

\* make_chunk(text_block, metadata); the text " ".join(words[start:end]) is
\* kept as the slice it joins, the id is the next draw of uuid4.
make_chunk(start, end, page_number, local_index, global_index) ==
    [id |-> uuid_next,
     text |-> [from |-> start, to |-> end],
     pdf_type |-> ck_pdf_type,
     page_number |-> page_number,
     local_chunk_index |-> local_index,
     global_chunk_index |-> global_index]

\* The frame of chunk_page_text at its entry (lines 134-142): an empty word
\* list returns at once.
EnterChunkPageText(p, n, gstart) ==
    [page |-> p, n |-> n, gstart |-> gstart, start |-> 0, local_index |-> 0,
     global_index |-> gstart, chunks |-> <<>>, returned |-> (n = 0)]

\* line 145: end = min(start + chunk_size_words, len(words))
WindowEndUnclamped(start, n) == start + chunk_size_words

WindowEnd(start, n) == Min(start + chunk_size_words, n)

\* line 164: start = max(0, end - overlap_words)
SlideIgnoringOverlap(end) == end

SlideOffByOne(end) == Max(0, end - overlap_words + 1)

SlideStart(end) == Max(0, end - overlap_words)

\* line 205: if not any(c.isalnum() for c in page_text): continue
SkipNoPage(page) == FALSE

SkipPage(page) == ~page.alnum

\* line 188: global_chunk_index = 0, a local of the call; g is the value the
\* previous call left behind.
CarriedGlobalIndex(g) == g

FreshGlobalIndex(g) == 0

\* line 219: global_chunk_index += len(page_chunks)
ResetGlobalIndex(g, page_chunks) == 0

AdvanceGlobalIndex(g, page_chunks) == g + Len(page_chunks)

ChunkerIdle ==
    /\ ck_entry = "none"
    /\ chunk_size_words = 0
    /\ overlap_words = 0
    /\ ck_pages = <<>>
    /\ ck_pc = "done"
    /\ page_idx = 0
    /\ global_chunk_index = 0
    /\ chunks = <<>>
    /\ cpt = NoCall
    /\ ck_pdf_type = "none"
    /\ uuid_next = 0
    /\ ck_call = 0
    /\ first_call = <<>>

\* chunk_pdf(pdf_path, pdf_type, size, overlap) on the pages ps.
ChunkPdfStart(type, ps, size, overlap) ==
    /\ ck_entry = "chunk_pdf"
    /\ ck_pdf_type = type
    /\ chunk_size_words = size
    /\ overlap_words = overlap
    /\ ck_pages = ps
    /\ ck_pc = "page"
    /\ page_idx = 0
    /\ global_chunk_index = FreshGlobalIndex(0)
    /\ chunks = <<>>
    /\ cpt = NoCall
    /\ uuid_next = 0
    /\ ck_call = 1
    /\ first_call = <<>>

\* chunk_page_text(page_text, ..., size, overlap, gstart) called directly.
ChunkPageTextStart(type, pg, size, overlap, gstart) ==
    /\ ck_entry = "chunk_page_text"
    /\ ck_pdf_type = type
    /\ chunk_size_words = size
    /\ overlap_words = overlap
    /\ ck_pages = <<pg>>
    /\ ck_pc = IF pg.words = 0 THEN "done" ELSE "loop"
    /\ page_idx = 1
    /\ global_chunk_index = 0
    /\ chunks = <<>>
    /\ cpt = EnterChunkPageText(1, pg.words, gstart)
    /\ uuid_next = 0
    /\ ck_call = 1
    /\ first_call = <<>>

PageLists == UNION {[1..k -> SmallPages] : k \in 0..MaxChunkPages}

\* The pdf_type argument: the chunker takes any string.
ChunkTypes == {"project_schedule", "other"}

ChunkerInit ==
    \/ \E t \in ChunkTypes, ps \in PageLists, size \in 1..MaxChunkSize,
          overlap \in 0..MaxOverlap :
          ChunkPdfStart(t, ps, size, overlap)
    \/ \E t \in ChunkTypes, n \in 0..MaxDefaultWords :
          ChunkPdfStart(t, <<PageOf(n, n > 0)>>, DefaultChunkSizeWords,
                        DefaultOverlapWords)
    \/ \E t \in ChunkTypes, n \in 0..MaxWords, a \in BOOLEAN,
          size \in 1..MaxChunkSize, overlap \in 0..MaxOverlap,
          g \in 0..MaxStartIndex :
          /\ a => n > 0
          /\ ChunkPageTextStart(t, PageOf(n, a), size, overlap, g)

\* chunk_pdf, one turn of the page loop (lines 194-219) up to the call of
\* chunk_page_text, or the return after the last page (line 222).
ChunkPdfPage ==
    /\ ck_entry = "chunk_pdf"
    /\ ck_pc = "page"
    /\ IF page_idx = Len(ck_pages)
       THEN /\ ck_pc' = "done"
            /\ UNCHANGED <<page_idx, cpt>>
       ELSE /\ page_idx' = page_idx + 1
            /\ IF SkipPage(ck_pages[page_idx + 1])
               THEN UNCHANGED <<ck_pc, cpt>>
               ELSE /\ cpt' = EnterChunkPageText(page_idx + 1,
                                                 ck_pages[page_idx + 1].words,
                                                 global_chunk_index)
                    /\ ck_pc' = "loop"
    /\ UNCHANGED <<ck_entry, chunk_size_words, overlap_words, ck_pages,
                   global_chunk_index, chunks, ck_pdf_type, uuid_next, ck_call,
                   first_call, llmVars, exVars, manyVars, ldVars, clsVars, upVars>>

\* chunk_page_text, one iteration of `while start < len(words)` (lines
\* 144-164); on the break the function returns and, under chunk_pdf, the
\* caller extends its list and advances its index (lines 218-219).
ChunkWindow ==
    /\ ck_pc = "loop"
    /\ Len(cpt.chunks) < ChunkCap
    /\ uuid_next' = uuid_next + 1
    /\ LET end == WindowEnd(cpt.start, cpt.n)
           out == Append(cpt.chunks,
                         make_chunk(cpt.start, end, cpt.page, cpt.local_index,
                                    cpt.global_index))
       IN  IF end = cpt.n
           THEN /\ cpt' = [cpt EXCEPT !.chunks = out,
                                      !.local_index = @ + 1,
                                      !.global_index = @ + 1,
                                      !.returned = TRUE]
                /\ IF ck_entry = "chunk_pdf"
                   THEN /\ chunks' = chunks \o out
                        /\ global_chunk_index' =
                              AdvanceGlobalIndex(global_chunk_index, out)
                        /\ ck_pc' = "page"
                   ELSE /\ ck_pc' = "done"
                        /\ UNCHANGED <<chunks, global_chunk_index>>
           ELSE /\ cpt' = [cpt EXCEPT !.chunks = out,
                                      !.local_index = @ + 1,
                                      !.global_index = @ + 1,
                                      !.start = SlideStart(end)]
                /\ UNCHANGED <<ck_pc, chunks, global_chunk_index>>
    /\ UNCHANGED <<ck_entry, chunk_size_words, overlap_words, ck_pages,
                   page_idx, ck_pdf_type, ck_call, first_call, llmVars, exVars, manyVars, ldVars, clsVars, upVars>>

\* What the entry function returned: chunk_pdf its list (line 222),
\* chunk_page_text the list of its frame (lines 138, 166).
ChunkerResult == IF ck_entry = "chunk_pdf" THEN chunks ELSE cpt.chunks

\* The caller keeps the list it got and makes the same call again: the
\* arguments and the PDF are the same, every local of the function is
\* created anew (lines 134-142, 187-188), the uuid generator goes on.
ChunkAgain ==
    /\ ck_pc = "done"
    /\ ck_call = 1
    /\ first_call' = ChunkerResult
    /\ ck_call' = 2
    /\ IF ck_entry = "chunk_pdf"
       THEN /\ ck_pc' = "page"
            /\ page_idx' = 0
            /\ global_chunk_index' = FreshGlobalIndex(global_chunk_index)
            /\ chunks' = <<>>
            /\ cpt' = NoCall
       ELSE /\ ck_pc' = IF ck_pages[1].words = 0 THEN "done" ELSE "loop"
            /\ cpt' = EnterChunkPageText(1, ck_pages[1].words, cpt.gstart)
            /\ UNCHANGED <<page_idx, global_chunk_index, chunks>>
    /\ UNCHANGED <<ck_entry, chunk_size_words, overlap_words, ck_pages,
                   ck_pdf_type, uuid_next, llmVars, exVars, manyVars, ldVars, clsVars, upVars>>

ChunkerNext == ChunkPdfPage \/ ChunkWindow \/ ChunkAgain


\* ------------------------------------------------------------------------
\* Structured extractor: safe_json_loads and _process_page_with_llm
\* (etl/pdf_extractor.py)
\* ------------------------------------------------------------------------
\* An LLM response is a sequence of tokens: "fence" (a run of backticks), "json",
\* "nl" (whitespace), the JSON punctuation "[", "]", ",", the JSON values
\* "{a}", "{b}" (objects without a page_number key), "{p}" (an object with its
\* own page_number), "7" (a number), and "note" (free text).
RECURSIVE LStrip(_, _)
LStrip(s, T) == IF s # <<>> /\ Head(s) \in T THEN LStrip(Tail(s), T) ELSE s

RECURSIVE RStrip(_, _)
RStrip(s, T) ==
    IF s # <<>> /\ s[Len(s)] \in T THEN RStrip(SubSeq(s, 1, Len(s) - 1), T) ELSE s

\* str.strip(chars)
Strip(s, T) == RStrip(LStrip(s, T), T)

Whitespace == {"nl"}

ValueTokens == {"{a}", "{b}", "{p}", "7"}

OwnPageNumber == 9

\* The Python value of a JSON value token; page_number 0: the key is absent.
ValueOf(tok) ==
    CASE tok = "{a}" -> [kind |-> "dict", name |-> "a", page_number |-> 0]
      [] tok = "{b}" -> [kind |-> "dict", name |-> "b", page_number |-> 0]
      [] tok = "{p}" -> [kind |-> "dict", name |-> "p", page_number |-> OwnPageNumber]
      [] OTHER -> [kind |-> "number", name |-> tok, page_number |-> 0]

NotWhitespace(t) == t \notin Whitespace

\* json.loads(s): [ok, isList, items]; a top-level value that is no array is
\* returned as a one-element items with isList FALSE.
json_loads(s) ==
    LET w == SelectSeq(s, NotWhitespace)
        inner == SubSeq(w, 2, Len(w) - 1)
    IN  IF Len(w) = 1 /\ w[1] \in ValueTokens
        THEN [ok |-> TRUE, isList |-> FALSE, items |-> <<ValueOf(w[1])>>]
        ELSE IF /\ Len(w) >= 2
                /\ w[1] = "["
                /\ w[Len(w)] = "]"
                /\ \/ inner = <<>>
                   \/ /\ Len(inner) % 2 = 1
                      /\ \A i \in 1..Len(inner) :
                            IF i % 2 = 1 THEN inner[i] \in ValueTokens
                                         ELSE inner[i] = ","
        THEN [ok |-> TRUE, isList |-> TRUE,
              items |-> [k \in 1..((Len(inner) + 1) \div 2) |-> ValueOf(inner[2 * k - 1])]]
        ELSE [ok |-> FALSE, isList |-> FALSE, items |-> <<>>]

\* s.index(t) / s.rindex(t), 0 when t is not in s (ValueError).
IndexOf(s, t) ==
    IF \E i \in 1..Len(s) : s[i] = t
    THEN CHOOSE i \in 1..Len(s) : s[i] = t /\ \A j \in 1..(i - 1) : s[j] # t
    ELSE 0

RIndexOf(s, t) ==
    IF \E i \in 1..Len(s) : s[i] = t
    THEN CHOOSE i \in 1..Len(s) : s[i] = t /\ \A j \in (i + 1)..Len(s) : s[j] # t
    ELSE 0

\* lines 124-132: strip, remove the code fence and the language tag.
StripFences(raw) ==
    LET s0 == Strip(raw, Whitespace)
        s1 == Strip(s0, {"fence"})
    IN  IF s0 # <<>> /\ Head(s0) = "fence"
        THEN IF s1 # <<>> /\ Head(s1) = "json"
             THEN LStrip(Tail(s1), Whitespace)
             ELSE s1
        ELSE s0

\* safe_json_loads(raw) for a string raw (lines 116-146).
DirectParseOnly(raw) ==
    LET direct == json_loads(StripFences(raw))
    IN  IF direct.ok THEN direct
        ELSE [ok |-> TRUE, isList |-> TRUE, items |-> <<>>]

safe_json_loads(raw) ==
    LET s == StripFences(raw)
        direct == json_loads(s)
        start == IndexOf(s, "[")
        end == RIndexOf(s, "]")
        sliced == json_loads(SubSeq(s, start, end))
    IN  IF direct.ok THEN direct
        ELSE IF start # 0 /\ end # 0 /\ sliced.ok THEN sliced
        ELSE [ok |-> TRUE, isList |-> TRUE, items |-> <<>>]

PROMPT_MAP ==
    {"construction_process", "construction_costing", "project_schedule",
     "ura_circular"}

TaggedTypes == {"construction_process", "project_schedule", "ura_circular"}

\* lines 199-208: a dict without page_number gets the number of the page.
TagItem(obj, page_number) ==
    IF obj.kind = "dict" /\ obj.page_number = 0
    THEN [obj EXCEPT !.page_number = page_number]
    ELSE obj

\* A test that takes every parsed value for a list.
AnyValueIsList(page_results) == TRUE

\* line 194: isinstance(page_results, list)
IsInstanceList(page_results) == page_results.isList

\* _process_page_with_llm(pdf_type, prompt_template, page_info) when ask_llm
\* ends with `answer` (an outcome of the gateway): the value returned, or the
\* exception that propagates.
ProcessPageWithLLM(type, page_number, answer) ==
    IF answer.kind # "returned"
    THEN [state |-> "raised", page_number |-> page_number, items |-> <<>>,
          exc |-> answer.kind]
    ELSE LET page_results == safe_json_loads(answer.text)
         IN  IF ~IsInstanceList(page_results)
             THEN [state |-> "returned", page_number |-> page_number,
                   items |-> <<>>, exc |-> "none"]
             ELSE [state |-> "returned", page_number |-> page_number,
                   items |-> IF type \in TaggedTypes
                             THEN [i \in 1..Len(page_results.items) |->
                                      TagItem(page_results.items[i], page_number)]
                             ELSE page_results.items,
                   exc |-> "none"]

\* ------------------------------------------------------------------------
\* safe_json_loads called on its own (etl/pdf_extractor.py lines 116-146)
\* ------------------------------------------------------------------------
MaxArrayItems == 2     \* values of a JSON array

MaxCommentary == 2     \* tokens after the closing bracket

MaxRespLen == 3        \* tokens of an arbitrary response

\* The values joined by commas.
RECURSIVE ArrayBody(_)
ArrayBody(values) ==
    IF Len(values) <= 1 THEN values
    ELSE <<Head(values), ",">> \o ArrayBody(Tail(values))

\* The text of the JSON array of the values.
ArrayText(values) == <<"[">> \o ArrayBody(values) \o <<"]">>

ValueLists == UNION {[1..k -> ValueTokens] : k \in 0..MaxArrayItems}

\* The ways a code fence opens and closes.
FenceOpenings ==
    {<<"fence">>, <<"fence", "nl">>, <<"fence", "json">>, <<"fence", "json", "nl">>}

FenceClosings == {<<"fence">>, <<"nl", "fence">>}

Fenced(opening, text, closing) == opening \o text \o closing

\* Text after the closing bracket of an array.
Commentaries ==
    UNION {[1..k -> {"nl", "note", "7", "[", "]"}] : k \in 1..MaxCommentary}

RespTokens == {"fence", "json", "nl", "[", "]", ",", "{a}", "7", "note"}

RawResponses ==
    {Fenced(o, ArrayText(vs), c) :
        o \in FenceOpenings, vs \in ValueLists, c \in FenceClosings}
    \cup {ArrayText(vs) \o c : vs \in ValueLists, c \in Commentaries}
    \cup UNION {[1..k -> RespTokens] : k \in 0..MaxRespLen}

NoPageCall == [state |-> "none", page_number |-> 0, items |-> <<>>, exc |-> "none"]

\* The page numbers _process_page_with_llm is called with on its own.
PageNumbers == {1, 2}

NotLoaded ==
    [called |-> FALSE, value |-> [ok |-> FALSE, isList |-> FALSE, items |-> <<>>],
     type |-> "none", page |-> NoPageCall]

ParserIdle ==
    /\ json_raw = <<>>
    /\ json_out = NotLoaded

\* safe_json_loads(raw) is called with a string.
ParserInit ==
    /\ json_raw \in RawResponses
    /\ json_out = NotLoaded

SafeJsonLoads ==
    /\ ~json_out.called
    /\ json_out' = [json_out EXCEPT !.called = TRUE,
                                     !.value = safe_json_loads(json_raw)]
    /\ UNCHANGED <<json_raw, pdf_type, llm_stub, doc_pages, ex_pc,
                   pages_to_process, workers, page_calls, all_results_by_page,
                   structured, ex_out, llmVars, ckVars, manyVars, ldVars, clsVars, upVars>>

\* _process_page_with_llm for a page of a PDF of the type, when ask_llm
\* returns the text json_raw (lines 190-210).
ProcessPage(type, page_number) ==
    /\ json_out.page.state = "none"
    /\ json_out' =
          [json_out EXCEPT
              !.type = type,
              !.page = ProcessPageWithLLM(type, page_number,
                                          [kind |-> "returned", text |-> json_raw])]
    /\ UNCHANGED <<json_raw, pdf_type, llm_stub, doc_pages, ex_pc,
                   pages_to_process, workers, page_calls, all_results_by_page,
                   structured, ex_out, llmVars, ckVars, manyVars, ldVars, clsVars, upVars>>

PageWorker == \E type \in PROMPT_MAP, page_number \in PageNumbers :
                 ProcessPage(type, page_number)

ParserNext == SafeJsonLoads \/ PageWorker

\* ------------------------------------------------------------------------
\* Structured extractor: process_single_pdf (etl/pdf_extractor.py)
\* ------------------------------------------------------------------------
MAX_PAGE_WORKERS == 4

MaxPages == 3          \* pages of a PDF, any content, any answer of the LLM

MaxWidePages == 5      \* pages of a PDF whose pages all pass the filters

\* The values of pdf_type the classification prompt allows.
PdfTypes == PROMPT_MAP \cup {"construction_approval", "other"}

\* What extract_page_content returns for a page: the stripped text and the
\* tables as markdown, as sequences of characters.
PageEmpty == [text |-> <<>>, tables_markdown |-> <<>>]
PageDashes == [text |-> <<"-", "-">>, tables_markdown |-> <<>>]
PageLetters == [text |-> <<"a", "b">>, tables_markdown |-> <<>>]
PageDigits == [text |-> <<"a", "7">>, tables_markdown |-> <<>>]

PageContents == {PageEmpty, PageDashes, PageLetters, PageDigits}

Digits == {"0", "1", "2", "3", "4", "5", "6", "7", "8", "9"}

\* any(c.isdigit() for c in chars)
AnyDigit(chars) == \E i \in 1..Len(chars) : chars[i] \in Digits

\* The filters of lines 237-246 for one page: TRUE when the page is kept.
KeepPage(type, page_info) ==
    /\ ~(page_info.text = <<>> /\ page_info.tables_markdown = <<>>)
    /\ type = "construction_costing" =>
          AnyDigit(page_info.text \o page_info.tables_markdown)

\* The page loop of lines 231-248 from page i on: the numbers of the pages kept.
RECURSIVE ReadPages(_, _, _)
ReadPages(type, pages, i) ==
    IF i > Len(pages) THEN <<>>
    ELSE (IF KeepPage(type, pages[i]) THEN <<i>> ELSE <<>>)
            \o ReadPages(type, pages, i + 1)

\* Texts the LLM answers a page prompt with.
Resp3 == <<"[", "{a}", ",", "{b}", ",", "{p}", "]">>
RespFenced == <<"fence", "json", "nl", "[", "{a}", "]", "nl", "fence">>
RespTrailing == <<"[", "{a}", "]", "nl", "note">>
RespObject == <<"{b}">>
RespGarbage == <<"note">>

PageResponses == {Resp3, RespFenced, RespTrailing, RespObject, RespGarbage}

\* How an ask_llm call for a page can end (the outcomes of the gateway).
PageAnswers ==
    {[kind |-> "returned", text |-> t] : t \in PageResponses}
    \cup {[kind |-> "reraised", text |-> Err401],
          [kind |-> "exhausted", text |-> ExhaustedText]}

CallIn(st, pn) == [state |-> st, page_number |-> pn, items |-> <<>>, exc |-> "none"]

\* Python dict, kept as its entries in insertion order.
DictKeys(d) == [i \in 1..Len(d) |-> d[i].key]

DictHas(d, k) == \E i \in 1..Len(d) : d[i].key = k

DictGet(d, k) == d[CHOOSE i \in 1..Len(d) : d[i].key = k].value

\* d[k] = v
DictSet(d, k, v) ==
    IF DictHas(d, k)
    THEN [i \in 1..Len(d) |-> IF d[i].key = k THEN [key |-> k, value |-> v] ELSE d[i]]
    ELSE Append(d, [key |-> k, value |-> v])

\* d.setdefault(k, v)
DictSetDefault(d, k, v) == IF DictHas(d, k) THEN d ELSE DictSet(d, k, v)

Ascending(a, b) == a < b

\* The order of the flattening loop.
InsertionOrder(d) == DictKeys(d)

\* sorted(all_results_by_page.keys()) (line 294)
FlattenOrder(d) == SortSeq(DictKeys(d), Ascending)

RECURSIVE ExtendAll(_, _)
ExtendAll(d, keys) ==
    IF keys = <<>> THEN <<>>
    ELSE DictGet(d, Head(keys)) \o ExtendAll(d, Tail(keys))

\* lines 293-295
Flatten(d) == ExtendAll(d, FlattenOrder(d))

\* The body of the as_completed loop with the last key of the dict used in
\* the except branch instead of the page of the future.
CollectFutureStaleKey(d, page_number, call) ==
    IF call.state = "returned"
    THEN DictSet(d, call.page_number, call.items)
    ELSE IF d = <<>> THEN DictSetDefault(d, page_number, <<>>)
         ELSE Append(DictSet(d, d[Len(d)].key, <<>>),
                     [key |-> page_number, value |-> <<>>])

\* The body of the as_completed loop (lines 284-290) for the future of page
\* page_number: the dict afterwards.
CollectFuture(d, page_number, call) ==
    IF call.state = "returned"
    THEN DictSet(d, call.page_number, call.items)
    ELSE DictSetDefault(d, page_number, <<>>)

\* line 267: workers = min(MAX_PAGE_WORKERS, len(pages_to_process))
OneWorkerPerPage(n) == n

PoolWorkers(n) == Min(MAX_PAGE_WORKERS, n)

ExtractorIdle ==
    /\ pdf_type = "none"
    /\ llm_stub = {}
    /\ doc_pages = <<>>
    /\ ex_pc = "done"
    /\ pages_to_process = <<>>
    /\ workers = 0
    /\ page_calls = <<>>
    /\ all_results_by_page = <<>>
    /\ structured = <<>>
    /\ ex_out = [kind |-> "none", exc |-> "none"]
    /\ ParserIdle

\* process_single_pdf(pdf_path, classifier) is called.
ExtractorStart(type, pages, answers) ==
    /\ pdf_type = type
    /\ llm_stub = answers
    /\ doc_pages = pages
    /\ ex_pc = "validate"
    /\ pages_to_process = <<>>
    /\ workers = 0
    /\ page_calls = [i \in 1..Len(pages) |-> NoPageCall]
    /\ all_results_by_page = <<>>
    /\ structured = <<>>
    /\ ex_out = [kind |-> "none", exc |-> "none"]
    /\ ParserIdle

Documents == UNION {[1..k -> PageContents] : k \in 0..MaxPages}

\* PDFs with more pages than the pool has workers; every page passes the
\* filters of every type.
WideDocuments ==
    {[i \in 1..k |-> PageDigits] : k \in (MaxPages + 1)..MaxWidePages}

\* The LLM of a run over a wide PDF: every call is answered.
WideAnswers == {[kind |-> "returned", text |-> Resp3]}

ExtractorInit ==
    \/ \E type \in PdfTypes, pages \in Documents :
          ExtractorStart(type, pages, PageAnswers)
    \/ \E type \in PROMPT_MAP, pages \in WideDocuments :
          ExtractorStart(type, pages, WideAnswers)

\* A validation that lets every type through.
AnyTypeHasPrompt(type) == TRUE

\* line 220: pdf_type in PROMPT_MAP
HasPrompt(type) == type \in PROMPT_MAP

\* lines 217-223: the type must have a prompt.
ExValidate ==
    /\ ex_pc = "validate"
    /\ IF ~HasPrompt(pdf_type)
       THEN /\ ex_pc' = "done"
            /\ ex_out' = [kind |-> "raised", exc |-> "ValueError"]
       ELSE /\ ex_pc' = "read"
            /\ ex_out' = ex_out
    /\ UNCHANGED <<pdf_type, llm_stub, doc_pages, pages_to_process, workers, page_calls,
                   all_results_by_page, structured, json_raw, json_out,
                   llmVars, ckVars, manyVars, ldVars, clsVars, upVars>>

\* lines 226-281: open the PDF, read and filter the pages one after the
\* other and close it; then return at once (no page), start the inline call
\* (one page), or create the pool and submit one future per page.
ExReadPages ==
    /\ ex_pc = "read"
    /\ LET kept == ReadPages(pdf_type, doc_pages, 1)
       IN  /\ pages_to_process' = kept
           /\ IF kept = <<>>
              THEN /\ ex_pc' = "done"
                   /\ ex_out' = [kind |-> "returned", exc |-> "none"]
                   /\ UNCHANGED <<workers, page_calls>>
              ELSE IF Len(kept) = 1
              THEN /\ ex_pc' = "single"
                   /\ page_calls' = [page_calls EXCEPT ![kept[1]] = CallIn("running", kept[1])]
                   /\ UNCHANGED <<workers, ex_out>>
              ELSE /\ ex_pc' = "pool"
                   /\ workers' = PoolWorkers(Len(kept))
                   /\ page_calls' =
                         [i \in 1..Len(page_calls) |->
                             IF \E j \in 1..Len(kept) : kept[j] = i
                             THEN CallIn("queued", i) ELSE NoPageCall]
                   /\ UNCHANGED ex_out
    /\ doc_pages' = <<>>
    /\ UNCHANGED <<pdf_type, llm_stub, all_results_by_page, structured, json_raw, json_out,
                   llmVars, ckVars, manyVars, ldVars, clsVars, upVars>>

\* lines 257-264 and 293-302: the inline call for the only page ends with
\* `answer` from the gateway; its exception, if any, leaves process_single_pdf.
ExSinglePage(answer) ==
    /\ ex_pc = "single"
    /\ LET pn == pages_to_process[1]
           call == ProcessPageWithLLM(pdf_type, pn, answer)
           d == DictSet(all_results_by_page, call.page_number, call.items)
       IN  /\ page_calls' = [page_calls EXCEPT ![pn] = call]
           /\ ex_pc' = "done"
           /\ IF call.state = "raised"
              THEN /\ ex_out' = [kind |-> "raised", exc |-> call.exc]
                   /\ UNCHANGED <<all_results_by_page, structured>>
              ELSE /\ ex_out' = [kind |-> "returned", exc |-> "none"]
                   /\ all_results_by_page' = d
                   /\ structured' = Flatten(d)
    /\ UNCHANGED <<pdf_type, llm_stub, doc_pages, pages_to_process, workers, json_raw, json_out,
                   llmVars, ckVars, manyVars, ldVars, clsVars, upVars>>

ExSingle == \E answer \in llm_stub : ExSinglePage(answer)

Running == {i \in 1..Len(page_calls) : page_calls[i].state = "running"}

Queued == {i \in 1..Len(page_calls) : page_calls[i].state = "queued"}

Finished == {i \in 1..Len(page_calls) : page_calls[i].state \in {"returned", "raised"}}

\* A pool worker takes the next future off the executor's queue (FIFO).
PageStart ==
    /\ ex_pc = "pool"
    /\ Queued # {}
    /\ Cardinality(Running) < workers
    /\ LET pn == CHOOSE i \in Queued : \A j \in Queued : i <= j
       IN  page_calls' = [page_calls EXCEPT ![pn].state = "running"]
    /\ UNCHANGED <<pdf_type, llm_stub, doc_pages, ex_pc, pages_to_process, workers,
                   all_results_by_page, structured, ex_out, json_raw, json_out,
                   llmVars, ckVars, manyVars, ldVars, clsVars, upVars>>

\* The worker's _process_page_with_llm call for page pn ends: the future
\* holds its result or its exception.
PageFinish(pn, answer) ==
    /\ ex_pc = "pool"
    /\ pn \in Running
    /\ page_calls' = [page_calls EXCEPT ![pn] = ProcessPageWithLLM(pdf_type, pn, answer)]
    /\ UNCHANGED <<pdf_type, llm_stub, doc_pages, ex_pc, pages_to_process, workers,
                   all_results_by_page, structured, ex_out, json_raw, json_out,
                   llmVars, ckVars, manyVars, ldVars, clsVars, upVars>>

PageDone == \E pn \in Running, answer \in llm_stub : PageFinish(pn, answer)

\* as_completed yields a finished future not yet seen; lines 284-290.
CollectPage(pn) ==
    /\ ex_pc = "pool"
    /\ pn \in Finished
    /\ ~DictHas(all_results_by_page, pn)
    /\ all_results_by_page' = CollectFuture(all_results_by_page, pn, page_calls[pn])
    /\ UNCHANGED <<pdf_type, llm_stub, doc_pages, ex_pc, pages_to_process, workers,
                   page_calls, structured, ex_out, json_raw, json_out,
                   llmVars, ckVars, manyVars, ldVars, clsVars, upVars>>

Collect == \E pn \in Finished : CollectPage(pn)

\* The loop left when the first future is yielded.
FirstPageYielded == all_results_by_page # <<>>

\* lines 284-290: as_completed has yielded the future of every page.
AllPagesYielded ==
    \A i \in 1..Len(pages_to_process) :
        DictHas(all_results_by_page, pages_to_process[i])

\* Every future was yielded: the pool is shut down and lines 293-302 flatten
\* and return.
ExFlatten ==
    /\ ex_pc = "pool"
    /\ AllPagesYielded
    /\ structured' = Flatten(all_results_by_page)
    /\ ex_pc' = "done"
    /\ ex_out' = [kind |-> "returned", exc |-> "none"]
    /\ UNCHANGED <<pdf_type, llm_stub, doc_pages, pages_to_process, workers, page_calls,
                   all_results_by_page, json_raw, json_out,
                   llmVars, ckVars, manyVars, ldVars, clsVars, upVars>>

ExtractorNext ==
    ExValidate \/ ExReadPages \/ ExSingle \/ PageStart \/ PageDone \/ Collect
    \/ ExFlatten


\* ------------------------------------------------------------------------
\* Batch extractor: process_many_pdfs (etl/pdf_extractor.py)
\* ------------------------------------------------------------------------
MAX_DOC_WORKERS == 4

MaxDocs == 2           \* PDFs of a batch, of any kind

MaxDocPages == 1       \* pages of such a PDF that pass the filters

MaxWideDocs == 5       \* PDFs of a batch in which every PDF is extracted

\* A PDF of the batch: how detect_pdf_type ends on it ("returned" with
\* pdf_type, or "raised"), how many of its pages pass the filters of
\* process_single_pdf, and whether the LLM answers its page calls.
Pdf(c, t, n, ok) == [classifier |-> c, pdf_type |-> t, pages |-> n, llm_ok |-> ok]

UnclassifiablePdf == Pdf("raised", "none", 0, TRUE)

UnsupportedPdf == Pdf("returned", "other", 0, TRUE)

SmallPdfs ==
    {UnclassifiablePdf, UnsupportedPdf}
    \cup {Pdf("returned", "project_schedule", n, ok) :
             n \in 0..MaxDocPages, ok \in BOOLEAN}

\* A PDF with more pages than the page pool has workers.
WidePdf == Pdf("returned", "project_schedule", MAX_PAGE_WORKERS + 1, TRUE)

Batches ==
    UNION {[1..k -> SmallPdfs] : k \in 0..MaxDocs}
    \cup {[i \in 1..k |-> WidePdf] : k \in (MaxDocs + 1)..MaxWideDocs}

\* line 328: workers = min(MAX_DOC_WORKERS, len(jobs))
OneWorkerPerDoc(n) == n

DocWorkers(n) == Min(MAX_DOC_WORKERS, n)

\* How process_single_pdf ends on a PDF: ValueError for a type without a
\* prompt (lines 220-221); the exception of the inline call when the only
\* page fails (lines 257-264); a result otherwise (lines 283-302).
ExtractionOutcome(pdf) ==
    IF pdf.pdf_type \notin PROMPT_MAP THEN "raised"
    ELSE IF pdf.pages = 1 /\ ~pdf.llm_ok THEN "raised"
    ELSE "returned"

NoDocRun == [state |-> "none", pages_done |-> 0, yielded |-> FALSE]

ManyIdle ==
    /\ pdf_paths = <<>>
    /\ many_pc = "done"
    /\ jobs = <<>>
    /\ doc_workers = 0
    /\ doc_runs = <<>>
    /\ results = <<>>
    /\ many_out = [kind |-> "none", exc |-> "none"]

\* process_many_pdfs(pdf_paths) is called.
ManyStart(paths) ==
    /\ pdf_paths = paths
    /\ many_pc = "classify"
    /\ jobs = <<>>
    /\ doc_workers = 0
    /\ doc_runs = [i \in 1..Len(paths) |-> NoDocRun]
    /\ results = <<>>
    /\ many_out = [kind |-> "none", exc |-> "none"]

ManyInit == \E paths \in Batches : ManyStart(paths)

\* lines 316-319, one turn of the classification loop: detect_pdf_type is
\* called outside any try, so what it raises leaves process_many_pdfs.
ManyClassify ==
    /\ many_pc = "classify"
    /\ Len(jobs) < Len(pdf_paths)
    /\ LET path == Len(jobs) + 1
       IN  IF pdf_paths[path].classifier = "raised"
           THEN /\ many_pc' = "done"
                /\ many_out' = [kind |-> "raised", exc |-> "JSONDecodeError"]
                /\ UNCHANGED jobs
           ELSE /\ jobs' = Append(jobs, path)
                /\ UNCHANGED <<many_pc, many_out>>
    /\ UNCHANGED <<pdf_paths, doc_workers, doc_runs, results, llmVars, ckVars,
                   exVars, ldVars, clsVars, upVars>>

\* lines 316-319: the classification loop is over when every path has its
\* job.
FirstClassified == Len(jobs) >= 1 \/ pdf_paths = <<>>

ClassificationOver == Len(jobs) = Len(pdf_paths)

\* lines 321-337, after the loop: one job is run inline; otherwise the pool
\* is created with min(MAX_DOC_WORKERS, len(jobs)) workers (ThreadPoolExecutor
\* raises ValueError for max_workers = 0) and every job is submitted.
ManyDispatch ==
    /\ many_pc = "classify"
    /\ ClassificationOver
    /\ IF Len(jobs) = 1
       THEN /\ many_pc' = "single"
            /\ doc_runs' = [doc_runs EXCEPT ![1].state = "running"]
            /\ UNCHANGED <<doc_workers, many_out>>
       ELSE IF DocWorkers(Len(jobs)) = 0
       THEN /\ many_pc' = "done"
            /\ many_out' = [kind |-> "raised", exc |-> "ValueError"]
            /\ UNCHANGED <<doc_workers, doc_runs>>
       ELSE /\ many_pc' = "pool"
            /\ doc_workers' = DocWorkers(Len(jobs))
            /\ doc_runs' = [i \in 1..Len(doc_runs) |->
                               [doc_runs[i] EXCEPT !.state = "queued"]]
            /\ UNCHANGED many_out
    /\ UNCHANGED <<pdf_paths, jobs, results, llmVars, ckVars, exVars, ldVars, clsVars, upVars>>

RunningDocs == {i \in 1..Len(doc_runs) : doc_runs[i].state = "running"}

QueuedDocs == {i \in 1..Len(doc_runs) : doc_runs[i].state = "queued"}

FinishedDocs ==
    {i \in 1..Len(doc_runs) : doc_runs[i].state \in {"returned", "raised"}}

\* The page calls a running process_single_pdf has yet to finish.
PagesLeft(i) ==
    IF pdf_paths[i].pdf_type \in PROMPT_MAP
    THEN pdf_paths[i].pages - doc_runs[i].pages_done
    ELSE 0

\* The ask_llm calls of the process_single_pdf call for path i that are in
\* flight, counted at their most: every worker of its page pool (or the
\* inline call, lines 257-264) that has a page to work on is in its call.
InFlight(i) ==
    IF doc_runs[i].state = "running"
    THEN Min(PoolWorkers(pdf_paths[i].pages), PagesLeft(i))
    ELSE 0

RECURSIVE TotalInFlight(_)
TotalInFlight(i) ==
    IF i > Len(doc_runs) THEN 0 ELSE InFlight(i) + TotalInFlight(i + 1)

\* A worker of the document pool takes the next job off the queue (FIFO).
DocStart ==
    /\ many_pc = "pool"
    /\ QueuedDocs # {}
    /\ Cardinality(RunningDocs) < doc_workers
    /\ LET path == CHOOSE i \in QueuedDocs : \A j \in QueuedDocs : i <= j
       IN  doc_runs' = [doc_runs EXCEPT ![path].state = "running"]
    /\ UNCHANGED <<pdf_paths, many_pc, jobs, doc_workers, results, many_out,
                   llmVars, ckVars, exVars, ldVars, clsVars, upVars>>

\* One page call of the running process_single_pdf for `path` ends.
DocPageEnd(path) ==
    /\ path \in RunningDocs
    /\ PagesLeft(path) > 0
    /\ doc_runs' = [doc_runs EXCEPT ![path].pages_done = @ + 1]
    /\ UNCHANGED <<pdf_paths, many_pc, jobs, doc_workers, results, many_out,
                   llmVars, ckVars, exVars, ldVars, clsVars, upVars>>

DocPage == \E path \in RunningDocs : DocPageEnd(path)

\* process_single_pdf ends in a worker of the pool: the future holds its
\* result or its exception.
DocFinish(path) ==
    /\ many_pc = "pool"
    /\ path \in RunningDocs
    /\ PagesLeft(path) = 0
    /\ doc_runs' = [doc_runs EXCEPT ![path].state = ExtractionOutcome(pdf_paths[path])]
    /\ UNCHANGED <<pdf_paths, many_pc, jobs, doc_workers, results, many_out,
                   llmVars, ckVars, exVars, ldVars, clsVars, upVars>>

DocDone == \E path \in RunningDocs : DocFinish(path)

\* lines 323-326: the inline process_single_pdf of the only job ends; it is
\* called outside any try.
ManySingle ==
    /\ many_pc = "single"
    /\ PagesLeft(1) = 0
    /\ doc_runs' = [doc_runs EXCEPT ![1].state = ExtractionOutcome(pdf_paths[1]),
                                     ![1].yielded = TRUE]
    /\ many_pc' = "done"
    /\ IF ExtractionOutcome(pdf_paths[1]) = "raised"
       THEN /\ many_out' = [kind |-> "raised", exc |-> "process_single_pdf"]
            /\ UNCHANGED results
       ELSE /\ many_out' = [kind |-> "returned", exc |-> "none"]
            /\ results' = Append(results, 1)
    /\ UNCHANGED <<pdf_paths, jobs, doc_workers, llmVars, ckVars, exVars, ldVars, clsVars, upVars>>

\* lines 339-345: as_completed yields a finished future not yet seen.
ManyCollectDoc(path) ==
    /\ many_pc = "pool"
    /\ path \in FinishedDocs
    /\ ~doc_runs[path].yielded
    /\ doc_runs' = [doc_runs EXCEPT ![path].yielded = TRUE]
    /\ results' = IF doc_runs[path].state = "returned"
                  THEN Append(results, path)
                  ELSE results
    /\ UNCHANGED <<pdf_paths, many_pc, jobs, doc_workers, many_out, llmVars,
                   ckVars, exVars, ldVars, clsVars, upVars>>

ManyCollect == \E path \in FinishedDocs : ManyCollectDoc(path)

\* Every future was yielded: the pool is shut down and line 347 returns.
ManyReturn ==
    /\ many_pc = "pool"
    /\ \A i \in 1..Len(doc_runs) : doc_runs[i].yielded
    /\ many_pc' = "done"
    /\ many_out' = [kind |-> "returned", exc |-> "none"]
    /\ UNCHANGED <<pdf_paths, jobs, doc_workers, doc_runs, results, llmVars,
                   ckVars, exVars, ldVars, clsVars, upVars>>

ManyNext ==
    ManyClassify \/ ManyDispatch \/ DocStart \/ DocPage \/ DocDone
    \/ ManySingle \/ ManyCollect \/ ManyReturn

\* ------------------------------------------------------------------------
\* Persistence loader: load_document_into_system (pipelines/dlt_pipeline.py)
\* and the flow that calls it (pipelines/prefect_pdf_flow.py)
\* ------------------------------------------------------------------------
MaxRecords == 2        \* entries of parsed_data

MaxLoadChunks == 2     \* chunks handed to the loader

MaxManyChunks == 65    \* chunks of a long document

\* batch_size of store_chunks_in_chroma (etl/pdf_embedding.py)
EmbedBatchSize == 64

\* The values a missing key gives: dict.get(key) is None.
None == "None"

\* Python values by type: a value carries its type and, when iterating it
\* gives something, the elements the iteration gives.
PyValue(py, elems) == [py |-> py, elems |-> elems]

PyList(elems) == PyValue("list", elems)

PyNone == PyValue("NoneType", <<>>)

\* The value of a key the dict does not have.
Absent == PyValue("absent", <<>>)

\* A cost item inside the "items" list of a costing block, or a non-dict
\* in its place.
CostItem(name, ctype) ==
    [py |-> "dict", item_name |-> name, quantity |-> "2", unit_price |-> "5",
     total_cost |-> "10", cost_type |-> ctype]

BadItem ==
    [py |-> "str", item_name |-> None, quantity |-> None, unit_price |-> None,
     total_cost |-> None, cost_type |-> None]

\* An entry of parsed_data: a dict (with the keys the three loaders read,
\* None where the key is absent) or a non-dict.
Mapping(task, rule, items) ==
    [py |-> "dict", task_name |-> task, rule_summary |-> rule, items |-> items]

NonMapping ==
    [py |-> "str", task_name |-> None, rule_summary |-> None, items |-> Absent]

\* The cost types the costing prompt asks for (etl/prompts.py).
CostTypes == {"local cost", "foreign cost", "unspecified"}

ParsedEntries ==
    {Mapping(None, None, PyList(<<CostItem("cement", "local cost"), BadItem,
                                  CostItem("sand", "domestic")>>)),
     Mapping("piling", "setback rule", Absent),
     Mapping(None, None, PyNone),
     NonMapping}

EntryLists == UNION {[1..k -> ParsedEntries] : k \in 0..MaxRecords}

\* A dict with the key "structured_data".
Wrapper(value) == [py |-> "dict", structured_data |-> value]

\* What process_single_pdf returns: the wrapper of the flattened list.
ExtractorOutputs == {Wrapper(PyList(es)) : es \in EntryLists}

\* parsed_data as a caller can pass it: a list of entries, a dict with the
\* key "structured_data" (holding a list, one dict or a string), one dict
\* without that key, or a string.
ParsedInputs ==
    {PyList(es) : es \in EntryLists}
    \cup ExtractorOutputs
    \cup {Wrapper(e) : e \in ParsedEntries}
    \cup ParsedEntries

\* Sequence filter, in order.
KeepAll(es) == es

RECURSIVE KeepDicts(_)
KeepDicts(es) ==
    IF es = <<>> THEN <<>>
    ELSE (IF Head(es).py = "dict" THEN <<Head(es)>> ELSE <<>>) \o KeepDicts(Tail(es))

\* lines 67-71 (and prefect_pdf_flow.py lines 48-52): a dict gives the value
\* of its key "structured_data", or the list of itself.
Unwrapped(pd) ==
    IF pd.py # "dict" THEN pd
    ELSE IF "structured_data" \in DOMAIN pd THEN pd.structured_data
    ELSE PyList(<<pd>>)

\* lines 73-74 (and prefect_pdf_flow.py lines 55-56)
AsList(value) == IF value.py # "list" THEN PyList(<<value>>) ELSE value

\* normalize_parsed_data (lines 58-78)
normalize_parsed_data(pd) == KeepDicts(AsList(Unwrapped(pd)).elems)

\* A chunk handed to the loader is a dict that can lack the keys "id",
\* "text" and "metadata"; its metadata is a dict or another value.
Metadata(page) == [py |-> "dict", page |-> page]

LoadChunks ==
    {[id |-> "c1", text |-> <<"nl", "a">>, metadata |-> Metadata(1)],
     [text |-> <<"a", "b">>],
     [id |-> "c2", text |-> <<"nl">>, metadata |-> PyNone],
     [id |-> "c3", metadata |-> Metadata(2)]}

ChunkInputs == UNION {[1..k -> LoadChunks] : k \in 0..MaxLoadChunks}

\* What chunk_document returns for a PDF of n windows: every chunk has an
\* id of its own, a text with a word in it and a metadata dict.
DocumentChunks(n) ==
    [k \in 1..n |->
        [id |-> "chunk" \o ToString(k), text |-> <<"a">>, metadata |-> Metadata(k)]]

\* lines 92-147: the entity table of a document type ("" for none).
EntityTable(type) ==
    CASE type = "construction_costing" -> "cost_items"
      [] type = "project_schedule" -> "project_tasks"
      [] type = "ura_circular" -> "regulatory_rules"
      [] OTHER -> ""

\* line 95: block.get("items", [])
ItemsOf(block) == IF block.items.py = "absent" THEN PyList(<<>>) ELSE block.items

\* `for item in ...` raises TypeError on a value that is not iterable.
Iterable(value) == value.py \in {"list", "str"}

\* lines 99-106: the row of a cost item.
CostRowSwapped(id, item) ==
    [document_id |-> id,
     item_name |-> item.item_name,
     quantity |-> item.quantity,
     unit_price_yen |-> item.total_cost,
     total_cost_yen |-> item.unit_price,
     cost_type |-> item.cost_type]

CostRow(id, item) ==
    [document_id |-> id,
     item_name |-> item.item_name,
     quantity |-> item.quantity,
     unit_price_yen |-> item.unit_price,
     total_cost_yen |-> item.total_cost,
     cost_type |-> item.cost_type]

\* lines 94-106: the rows of the cost items of the blocks.
RECURSIVE CostRowsOfItems(_, _)
CostRowsOfItems(id, items) ==
    IF items = <<>> THEN <<>>
    ELSE (IF Head(items).py # "dict" THEN <<>> ELSE <<CostRow(id, Head(items))>>)
         \o CostRowsOfItems(id, Tail(items))

RECURSIVE CostRows(_, _)
CostRows(id, blocks) ==
    IF blocks = <<>> THEN <<>>
    ELSE CostRowsOfItems(id, ItemsOf(Head(blocks)).elems)
         \o CostRows(id, Tail(blocks))

\* lines 116-124 and 134-140: one row per record.
TaskRows(id, records) ==
    [i \in 1..Len(records) |->
        [document_id |-> id, task_name |-> records[i].task_name]]

RuleRows(id, records) ==
    [i \in 1..Len(records) |->
        [document_id |-> id, rule_summary |-> records[i].rule_summary]]

StructuredRows(type, id, records) ==
    CASE type = "construction_costing" -> CostRows(id, records)
      [] type = "project_schedule" -> TaskRows(id, records)
      [] type = "ura_circular" -> RuleRows(id, records)
      [] OTHER -> <<>>

\* lines 94-95: building the rows raises TypeError when the "items" of a
\* costing block cannot be iterated.
StructuredRaises(type, records) ==
    /\ type = "construction_costing"
    /\ \E i \in 1..Len(records) : ~Iterable(ItemsOf(records[i]))

\* lines 92-149: the table written for a document type and its rows.
ScheduleByDefault(type, id, records) ==
    IF EntityTable(type) = ""
    THEN [table |-> "project_tasks", rows |-> TaskRows(id, records)]
    ELSE [table |-> EntityTable(type), rows |-> StructuredRows(type, id, records)]

StructuredLoad(type, id, records) ==
    [table |-> EntityTable(type), rows |-> StructuredRows(type, id, records)]

\* line 165: uuid.uuid4() gives the chunk at position k an id no other
\* chunk has.
GeneratedId(k) == "uuid" \o ToString(k)

\* lines 164-165
ChunkId(c, k) == IF "id" \in DOMAIN c THEN c.id ELSE GeneratedId(k)

\* lines 167-170: the metadata dict (an empty one in place of a missing or
\* non-dict metadata) with document_id set.
StampedMetadata(c, id) ==
    LET md == IF "metadata" \in DOMAIN c /\ c.metadata.py = "dict"
              THEN c.metadata
              ELSE [py |-> "dict"]
    IN  [key \in DOMAIN md \cup {"document_id"} |->
            IF key = "document_id" THEN id ELSE md[key]]

\* line 172: the chunks that are not skipped.
KeepsAnyText(c) == "text" \in DOMAIN c

KeepsChunk(c) == "text" \in DOMAIN c /\ Strip(c.text, Whitespace) # <<>>

\* lines 161-176: the chunks kept, from position k on, with an id and the
\* document id stamped.
RECURSIVE CleanFrom(_, _, _)
CleanFrom(id, cs, k) ==
    IF k > Len(cs) THEN <<>>
    ELSE (IF KeepsChunk(cs[k])
          THEN <<[id |-> ChunkId(cs[k], k),
                  text |-> cs[k].text,
                  metadata |-> StampedMetadata(cs[k], id)]>>
          ELSE <<>>)
         \o CleanFrom(id, cs, k + 1)

CleanChunks(id, cs) == CleanFrom(id, cs, 1)

\* The vector the embedding endpoint computes for a text.
Embedding(text) == [vector_of |-> text]

\* embed_fn(texts) (etl/pdf_embedding.py lines 35-36): one vector per text,
\* in order.
embed_fn(texts) == [i \in 1..Len(texts) |-> Embedding(texts[i])]

\* line 186: the embedding calls made for the texts, as the number of texts
\* each carries.
EmbedCalls(texts) == <<Len(texts)>>

\* collection.add (lines 189-194): the entries of the four parallel lists.
CollectionAdd(ids, embeddings, documents, metadatas) ==
    [i \in 1..Len(ids) |->
        [id |-> ids[i], embedding |-> embeddings[i], document |-> documents[i],
         metadata |-> metadatas[i]]]

\* lines 206-209: the order of the three writes.
ChunksBeforeHeader == <<"chunks", "header", "structured">>

LoadSteps == <<"header", "structured", "chunks">>

EmptyTables ==
    [documents_master |-> <<>>, cost_items |-> <<>>, project_tasks |-> <<>>,
     regulatory_rules |-> <<>>]

NoLoadOutcome == [kind |-> "none", value |-> 0]

NoFlowOutcome == [kind |-> "none", document_id |-> 0]

LoaderIdle ==
    /\ ld_pdf_type = "none"
    /\ parsed_data = PyList(<<>>)
    /\ ld_chunks = <<>>
    /\ ld_step = 0
    /\ document_id = 0
    /\ load_count = 0
    /\ tables = EmptyTables
    /\ collection = <<>>
    /\ embed_calls = <<>>
    /\ ld_out = NoLoadOutcome
    /\ flow_pc = "none"
    /\ flow_out = NoFlowOutcome

\* load_document_into_system(pdf_name, pdf_type, parsed_data, chunks) is
\* called on empty stores.
LoaderStart(type, pd, cs) ==
    /\ ld_pdf_type = type
    /\ parsed_data = pd
    /\ ld_chunks = cs
    /\ ld_step = 1
    /\ document_id = 0
    /\ load_count = 0
    /\ tables = EmptyTables
    /\ collection = <<>>
    /\ embed_calls = <<>>
    /\ ld_out = NoLoadOutcome
    /\ flow_pc = "none"
    /\ flow_out = NoFlowOutcome

\* pdf_ingestion_flow(pdf_path) is called on empty stores, for a PDF that
\* the classifier gives the type, the extractor the output pd and the
\* chunker the chunks cs.
FlowStart(type, pd, cs) ==
    /\ ld_pdf_type = type
    /\ parsed_data = pd
    /\ ld_chunks = cs
    /\ ld_step = 0
    /\ document_id = 0
    /\ load_count = 0
    /\ tables = EmptyTables
    /\ collection = <<>>
    /\ embed_calls = <<>>
    /\ ld_out = NoLoadOutcome
    /\ flow_pc = "classify"
    /\ flow_out = NoFlowOutcome

LoadTypes ==
    {"construction_costing", "project_schedule", "ura_circular", "other"}

FlowTypes == LoadTypes \cup {"construction_process"}

DirectCalls ==
    \E type \in LoadTypes, pd \in ParsedInputs, cs \in ChunkInputs :
        LoaderStart(type, pd, cs)

LongDocuments ==
    \E type \in LoadTypes, n \in EmbedBatchSize..MaxManyChunks :
        LoaderStart(type, PyList(<<>>), DocumentChunks(n))

FlowRuns ==
    \E type \in FlowTypes, pd \in ExtractorOutputs, n \in 0..MaxLoadChunks :
        FlowStart(type, pd, DocumentChunks(n))

LoaderInit == DirectCalls \/ LongDocuments \/ FlowRuns

AtStep(name) ==
    /\ ld_step \in 1..Len(LoadSteps)
    /\ LoadSteps[ld_step] = name

\* An exception leaves load_document_into_system: 1 a failed run of the
\* header insert, 2 a load_info without load ids, 3 a failed run of the
\* entity insert, 4 a failed embedding call or collection.add, 5 the
\* TypeError of iterating a value that is not iterable.
LoaderRaises(exc) ==
    /\ ld_step' = 0
    /\ ld_out' = [kind |-> "raised", value |-> exc]

\* load_document_record (lines 29-52): pipeline.run appends the header row
\* and the id of its load package becomes document_id; a failing run and a
\* load_info without load ids both raise.
LoadDocumentRecord(outcome) ==
    /\ AtStep("header")
    /\ IF outcome # "loaded"
       THEN /\ LoaderRaises(IF outcome = "failed" THEN 1 ELSE 2)
            /\ UNCHANGED <<document_id, load_count, tables>>
       ELSE /\ load_count' = load_count + 1
            /\ document_id' = load_count + 1
            /\ tables' = [tables EXCEPT !.documents_master =
                             Append(@, [pdf_type |-> ld_pdf_type,
                                        load_id |-> load_count + 1])]
            /\ ld_step' = ld_step + 1
            /\ UNCHANGED ld_out
    /\ UNCHANGED <<ld_pdf_type, parsed_data, ld_chunks, collection, embed_calls,
                   flow_pc, flow_out, llmVars, ckVars, exVars, manyVars, clsVars, upVars>>

LoadHeader ==
    \E outcome \in {"loaded", "failed", "no_load_id"} : LoadDocumentRecord(outcome)

\* load_structured_data (lines 84-149): the rows of the type's table are
\* built and appended in one pipeline.run, which is skipped when there is no
\* row or no table for the type.
LoadStructuredData(run_ok) ==
    /\ AtStep("structured")
    /\ LET records == normalize_parsed_data(parsed_data)
           load == StructuredLoad(ld_pdf_type, document_id, records)
       IN  IF StructuredRaises(ld_pdf_type, records)
           THEN /\ run_ok
                /\ LoaderRaises(5)
                /\ UNCHANGED <<load_count, tables>>
           ELSE IF load.rows = <<>>
           THEN /\ run_ok
                /\ ld_step' = ld_step + 1
                /\ UNCHANGED <<load_count, tables, ld_out>>
           ELSE IF ~run_ok
           THEN /\ LoaderRaises(3)
                /\ UNCHANGED <<load_count, tables>>
           ELSE /\ load_count' = load_count + 1
                /\ tables' = [tables EXCEPT ![load.table] = @ \o load.rows]
                /\ ld_step' = ld_step + 1
                /\ UNCHANGED ld_out
    /\ UNCHANGED <<ld_pdf_type, parsed_data, ld_chunks, document_id, collection,
                   embed_calls, flow_pc, flow_out, llmVars, ckVars, exVars,
                   manyVars, clsVars, upVars>>

LoadStructured == \E run_ok \in BOOLEAN : LoadStructuredData(run_ok)

\* store_chunks_in_chroma_with_doc_id (lines 155-196): the kept chunks are
\* embedded and added in one call; the embedding call and the add can raise.
StoreChunks(store_ok) ==
    /\ AtStep("chunks")
    /\ LET cleaned == CleanChunks(document_id, ld_chunks)
           ids == [i \in 1..Len(cleaned) |-> cleaned[i].id]
           texts == [i \in 1..Len(cleaned) |-> cleaned[i].text]
           metadatas == [i \in 1..Len(cleaned) |-> cleaned[i].metadata]
           vectors == embed_fn(texts)
       IN  IF cleaned = <<>>
           THEN /\ store_ok
                /\ ld_step' = ld_step + 1
                /\ UNCHANGED <<collection, embed_calls, ld_out>>
           ELSE /\ embed_calls' = embed_calls \o EmbedCalls(texts)
                /\ IF ~store_ok
                   THEN /\ LoaderRaises(4)
                        /\ UNCHANGED collection
                   ELSE /\ collection' = collection \o
                               CollectionAdd(ids, vectors, texts, metadatas)
                        /\ ld_step' = ld_step + 1
                        /\ UNCHANGED ld_out
    /\ UNCHANGED <<ld_pdf_type, parsed_data, ld_chunks, document_id, load_count,
                   tables, flow_pc, flow_out, llmVars, ckVars, exVars, manyVars, clsVars, upVars>>

LoadChunksStep == \E store_ok \in BOOLEAN : StoreChunks(store_ok)

\* line 212: return document_id
LastLoadId(id, loads) == loads

ReturnValue(id, loads) == id

LoadReturn ==
    /\ ld_step = Len(LoadSteps) + 1
    /\ ld_step' = 0
    /\ ld_out' = [kind |-> "returned", value |-> ReturnValue(document_id, load_count)]
    /\ UNCHANGED <<ld_pdf_type, parsed_data, ld_chunks, document_id, load_count,
                   tables, collection, embed_calls, flow_pc, flow_out, llmVars,
                   ckVars, exVars, manyVars, clsVars, upVars>>

\* An exception leaves pdf_ingestion_flow.
FlowRaises ==
    /\ flow_pc' = "done"
    /\ flow_out' = [kind |-> "raised", document_id |-> 0]

\* task_1_classify (prefect_pdf_flow.py lines 21-24): detect_pdf_type
\* returns the classifier dict or raises.
Task1Classify(ok) ==
    /\ flow_pc = "classify"
    /\ IF ok THEN flow_pc' = "extract" /\ UNCHANGED flow_out ELSE FlowRaises
    /\ UNCHANGED <<ld_pdf_type, parsed_data, ld_chunks, ld_step, document_id,
                   load_count, tables, collection, embed_calls, ld_out, llmVars,
                   ckVars, exVars, manyVars, clsVars, upVars>>

FlowClassify == \E ok \in BOOLEAN : Task1Classify(ok)

\* task_2_extract (lines 30-39): process_single_pdf returns its dict, or
\* raises: always for a type without a prompt.
Task2Extract(ok) ==
    /\ flow_pc = "extract"
    /\ ok => ld_pdf_type \in PROMPT_MAP
    /\ IF ok THEN flow_pc' = "load" /\ UNCHANGED flow_out ELSE FlowRaises
    /\ UNCHANGED <<ld_pdf_type, parsed_data, ld_chunks, ld_step, document_id,
                   load_count, tables, collection, embed_calls, ld_out, llmVars,
                   ckVars, exVars, manyVars, clsVars, upVars>>

FlowExtract == \E ok \in BOOLEAN : Task2Extract(ok)

\* task_3_load (lines 45-69) up to its call of load_document_into_system:
\* parsed_data is unwrapped and made a list, and chunk_document returns the
\* chunks or raises.
Task3Load(chunk_ok) ==
    /\ flow_pc = "load"
    /\ IF chunk_ok
       THEN /\ parsed_data' = AsList(Unwrapped(parsed_data))
            /\ ld_step' = 1
            /\ flow_pc' = "loading"
            /\ UNCHANGED flow_out
       ELSE /\ FlowRaises
            /\ UNCHANGED <<parsed_data, ld_step>>
    /\ UNCHANGED <<ld_pdf_type, ld_chunks, document_id, load_count, tables,
                   collection, embed_calls, ld_out, llmVars, ckVars, exVars,
                   manyVars, clsVars, upVars>>

FlowLoad == \E chunk_ok \in BOOLEAN : Task3Load(chunk_ok)

\* lines 86-89: the id load_document_into_system returned leaves the flow
\* under the key "document_id"; its exception leaves the flow as it is.
FlowEnd ==
    /\ flow_pc = "loading"
    /\ ld_out.kind # "none"
    /\ IF ld_out.kind = "returned"
       THEN /\ flow_pc' = "done"
            /\ flow_out' = [kind |-> "returned", document_id |-> ld_out.value]
       ELSE FlowRaises
    /\ UNCHANGED <<ld_pdf_type, parsed_data, ld_chunks, ld_step, document_id,
                   load_count, tables, collection, embed_calls, ld_out, llmVars,
                   ckVars, exVars, manyVars, clsVars, upVars>>

LoaderNext ==
    \/ LoadHeader
    \/ LoadStructured
    \/ LoadChunksStep
    \/ LoadReturn
    \/ FlowClassify
    \/ FlowExtract
    \/ FlowLoad
    \/ FlowEnd

\* ------------------------------------------------------------------------
\* Classifier: detect_pdf_type and classify_pdf (etl/pdf_classifier.py)
\* ------------------------------------------------------------------------
\* How the one ask_llm call of classify_pdf can end: a text, or an exception
\* of the gateway.
ClassifierAnswers ==
    {[kind |-> "returned", text |-> t] : t \in RawResponses}
    \cup {[kind |-> "reraised", text |-> Err401],
          [kind |-> "exhausted", text |-> ExhaustedText]}

NotParsed == [ok |-> FALSE, isList |-> FALSE, items |-> <<>>]

NoVerdict == [kind |-> "none", exc |-> "none", parsed |-> NotParsed]

NotJsonTag(t) == t # "json"

\* lines 114-117: raw_json.strip().strip(fence).strip(), then
\* replace("json", "") and strip().
CleanVerdict(raw_json) ==
    LET cleaned == Strip(Strip(Strip(raw_json, Whitespace), {"fence"}), Whitespace)
    IN  Strip(SelectSeq(cleaned, NotJsonTag), Whitespace)

ClassifierIdle ==
    /\ cls_answer = [kind |-> "none", text |-> <<>>]
    /\ cls_pc = "done"
    /\ cls_calls = 0
    /\ cls_out = NoVerdict

\* detect_pdf_type(pdf_path) is called.
ClassifierInit ==
    /\ cls_answer \in ClassifierAnswers
    /\ cls_pc = "ask"
    /\ cls_calls = 0
    /\ cls_out = NoVerdict

\* lines 112 and 73-90: classify_pdf asks the gateway once, outside any try;
\* what ask_llm raises leaves detect_pdf_type.
ClassifyPdf ==
    /\ cls_pc = "ask"
    /\ cls_calls' = cls_calls + 1
    /\ IF cls_answer.kind # "returned"
       THEN /\ cls_pc' = "done"
            /\ cls_out' = [kind |-> "raised", exc |-> cls_answer.kind,
                           parsed |-> NotParsed]
       ELSE /\ cls_pc' = "parse"
            /\ UNCHANGED cls_out
    /\ UNCHANGED <<cls_answer, llmVars, ckVars, exVars, manyVars, ldVars, upVars>>

\* lines 114-127: clean, json.loads; JSONDecodeError is logged and raised
\* again, any parsed value is returned.
DetectPdfType ==
    /\ cls_pc = "parse"
    /\ LET parsed == json_loads(CleanVerdict(cls_answer.text))
       IN  IF ~parsed.ok
           THEN cls_out' = [kind |-> "raised", exc |-> "JSONDecodeError",
                            parsed |-> NotParsed]
           ELSE cls_out' = [kind |-> "returned", exc |-> "none", parsed |-> parsed]
    /\ cls_pc' = "done"
    /\ UNCHANGED <<cls_answer, cls_calls, llmVars, ckVars, exVars, manyVars, ldVars,
                   upVars>>

ClassifierNext == ClassifyPdf \/ DetectPdfType

\* ------------------------------------------------------------------------
\* Upload endpoint: upload_pdf (django_app/ingestion/api.py)
\* ------------------------------------------------------------------------
MaxUploadChunks == 3   \* chunks of the uploaded file

FileNames == {"test_file.pdf", "plan.pdf", "notes.txt"}

\* request.FILES.get("file"): None without the field.
NoFile == [name |-> "none", chunks |-> 0]

UploadedFiles ==
    {[name |-> n, chunks |-> k] : n \in FileNames, k \in 0..MaxUploadChunks}

\* A POST request and the run it meets: whether writes to the documents
\* directory succeed and how pdf_ingestion_flow ends.
Requests ==
    {[file |-> NoFile, disk_ok |-> TRUE, flow |-> "returned"]}
    \cup {[file |-> f, disk_ok |-> d, flow |-> e] :
             f \in UploadedFiles, d \in BOOLEAN, e \in {"returned", "raised"}}

\* os.path.join(documents_dir, file.name)
SavePath(name) == <<"documents", name>>

\* str(state) of what the flow returned.
StrOf(state) == <<"str", state>>

NoResponse == [status_code |-> 0, body |-> [none |-> TRUE]]

\* line 21
NoFileResponse == [status_code |-> 400, body |-> [error |-> <<"No PDF file uploaded">>]]

\* lines 44-48
FailedResponse(e) ==
    [status_code |-> 500, body |-> [error |-> <<"Failed to process file: ", e>>]]

\* lines 38-43: Response(...) without a status argument is HTTP 200.
OkResponse(save_path, state) ==
    [status_code |-> 200,
     body |-> [status |-> "ok",
               message |-> "PDF uploaded and ingestion started",
               file_saved_as |-> save_path,
               prefect_state |-> StrOf(state)]]

UploadIdle ==
    /\ request = [file |-> NoFile, disk_ok |-> TRUE, flow |-> "none"]
    /\ up_pc = "done"
    /\ saved = 0
    /\ flow_calls = <<>>
    /\ response = NoResponse

\* upload_pdf(request) is called.
UploadInit ==
    /\ request \in Requests
    /\ up_pc = "get"
    /\ saved = 0
    /\ flow_calls = <<>>
    /\ response = NoResponse

\* lines 19-31: without a file the answer is 400; otherwise the directory is
\* made and the destination opened.
UploadGetFile ==
    /\ up_pc = "get"
    /\ IF request.file = NoFile
       THEN /\ up_pc' = "done"
            /\ response' = NoFileResponse
       ELSE /\ up_pc' = "write"
            /\ UNCHANGED response
    /\ UNCHANGED <<request, saved, flow_calls, llmVars, ckVars, exVars, manyVars,
                   ldVars, clsVars>>

\* lines 32-33, one turn of the loop over file.chunks(); a write that raises
\* is answered by the except branch of lines 44-48.
UploadWriteChunk ==
    /\ up_pc = "write"
    /\ saved < request.file.chunks
    /\ IF request.disk_ok
       THEN /\ saved' = saved + 1
            /\ UNCHANGED <<up_pc, response>>
       ELSE /\ up_pc' = "done"
            /\ response' = FailedResponse("OSError")
            /\ UNCHANGED saved
    /\ UNCHANGED <<request, flow_calls, llmVars, ckVars, exVars, manyVars, ldVars,
                   clsVars>>

\* lines 36-48: the flow is called with the saved path; its return value is
\* put in the 200 response, its exception in the 500 response.
UploadRunFlow ==
    /\ up_pc = "write"
    /\ saved = request.file.chunks
    /\ flow_calls' = Append(flow_calls, SavePath(request.file.name))
    /\ up_pc' = "done"
    /\ response' = IF request.flow = "raised"
                   THEN FailedResponse("pdf_ingestion_flow")
                   ELSE OkResponse(SavePath(request.file.name), "document_id")
    /\ UNCHANGED <<request, saved, llmVars, ckVars, exVars, manyVars, ldVars,
                   clsVars>>

UploadNext == UploadGetFile \/ UploadWriteChunk \/ UploadRunFlow

\* ------------------------------------------------------------------------
\* Specifications
\* ------------------------------------------------------------------------
LLMIdle == LLMStart(0)

InitGateway == LLMInit /\ ChunkerIdle /\ ExtractorIdle /\ ManyIdle /\ LoaderIdle
    /\ ClassifierIdle /\ UploadIdle

SpecGateway == InitGateway /\ [][LLMNext]_vars

InitChunker == LLMIdle /\ ChunkerInit /\ ExtractorIdle /\ ManyIdle /\ LoaderIdle
    /\ ClassifierIdle /\ UploadIdle

SpecChunker == InitChunker /\ [][ChunkerNext]_vars

InitExtractor == LLMIdle /\ ChunkerIdle /\ ExtractorInit /\ ManyIdle /\ LoaderIdle
    /\ ClassifierIdle /\ UploadIdle

SpecExtractor == InitExtractor /\ [][ExtractorNext]_vars

InitMany == LLMIdle /\ ChunkerIdle /\ ExtractorIdle /\ ManyInit /\ LoaderIdle
    /\ ClassifierIdle /\ UploadIdle

SpecMany == InitMany /\ [][ManyNext]_vars

InitLoader == LLMIdle /\ ChunkerIdle /\ ExtractorIdle /\ ManyIdle /\ LoaderInit
    /\ ClassifierIdle /\ UploadIdle

SpecLoader == InitLoader /\ [][LoaderNext]_vars

\* The extractor's call state idle, safe_json_loads about to be called.
ExtractorCallIdle ==
    /\ pdf_type = "none"
    /\ llm_stub = {}
    /\ doc_pages = <<>>
    /\ ex_pc = "done"
    /\ pages_to_process = <<>>
    /\ workers = 0
    /\ page_calls = <<>>
    /\ all_results_by_page = <<>>
    /\ structured = <<>>
    /\ ex_out = [kind |-> "none", exc |-> "none"]

InitParser ==
    LLMIdle /\ ChunkerIdle /\ ExtractorCallIdle /\ ParserInit /\ ManyIdle /\ LoaderIdle
    /\ ClassifierIdle /\ UploadIdle

SpecParser == InitParser /\ [][ParserNext]_vars

InitClassifier ==
    LLMIdle /\ ChunkerIdle /\ ExtractorIdle /\ ManyIdle /\ LoaderIdle
    /\ ClassifierInit /\ UploadIdle

SpecClassifier == InitClassifier /\ [][ClassifierNext]_vars

InitUpload ==
    LLMIdle /\ ChunkerIdle /\ ExtractorIdle /\ ManyIdle /\ LoaderIdle
    /\ ClassifierIdle /\ UploadInit

SpecUpload == InitUpload /\ [][UploadNext]_vars

\* The two thread pools of etl/pdf_extractor.py: a run of process_single_pdf
\* or a run of process_many_pdfs.
InitPools == InitExtractor \/ InitMany

PoolsNext == ExtractorNext \/ ManyNext

SpecPools == InitPools /\ [][PoolsNext]_vars

\* ========================================================================
\* Properties of the LLM gateway (checked under SpecGateway)
\* ========================================================================
Last(s) == s[Len(s)]

FailedCall(i) == i \in 1..Len(llm_calls) /\ ~llm_calls[i].ok

\* The error text carries one of the four markers the claims list.
HasMarker(text) ==
    \/ Contains(text, <<"4", "2", "9">>)
    \/ Contains(text, <<"5", "0", "3">>)
    \/ Contains(Lower(text), <<"r", "a", "t", "e", " ", "l", "i", "m", "i", "t">>)
    \/ Contains(Lower(text), <<"t", "e", "m", "p", "o", "r", "a", "r", "i", "l", "y">>)

\* C4: every ask_llm call makes at most max_retries endpoint calls and ends
\* in exactly one of three outcomes: it returns the text of the first
\* successful call, it re-raises a non-transient endpoint error, or it raises
\* the exhausted failure. Until then a step is always possible, and the
\* number of calls and sleeps is bounded, so the call terminates.
C4_BoundedAttemptsThreeOutcomes ==
    /\ Len(llm_calls) <= max_retries
    /\ Len(llm_waits) <= max_retries
    /\ llm_pc # "done" => (llm_out.kind = "none" /\ ENABLED LLMNext)
    /\ llm_pc = "done" =>
        \/ /\ llm_out.kind = "returned"
           /\ llm_calls # <<>>
           /\ Last(llm_calls).ok
           /\ llm_out.text = Last(llm_calls).text
           /\ \A i \in 1..(Len(llm_calls) - 1) : ~llm_calls[i].ok
        \/ /\ llm_out.kind = "reraised"
           /\ llm_calls # <<>>
           /\ ~Last(llm_calls).ok
           /\ ~HasMarker(Last(llm_calls).text)
           /\ llm_out.text = Last(llm_calls).text
        \/ /\ llm_out.kind = "exhausted"
           /\ llm_out.text = ExhaustedText

C4_Witness ==
    /\ llm_pc = "done"
    /\ max_retries = DefaultMaxRetries
    /\ Len(llm_calls) = DefaultMaxRetries
    /\ llm_out.kind = "returned"

C6_ExhaustedIffAllAttemptsRetryable ==
    llm_pc = "done" =>
        /\ llm_out.kind = "exhausted" <=>
              /\ Len(llm_calls) = max_retries
              /\ \A i \in 1..Len(llm_calls) :
                    FailedCall(i) /\ HasMarker(llm_calls[i].text)
        /\ (\E i \in 1..Len(llm_calls) :
                FailedCall(i) /\ ~HasMarker(llm_calls[i].text))
              => (llm_out.kind = "reraised" /\ llm_out.text # ExhaustedText)

C6_Witness ==
    /\ llm_pc = "done"
    /\ llm_out.kind = "exhausted"
    /\ max_retries = DefaultMaxRetries
    /\ Len(llm_calls) = DefaultMaxRetries

\* C7: ask_llm retries whenever the endpoint error is a 429, a 500 or a 503
\* error: such a failed call is never the one the call re-raises.
C7_RetriesOn429_500_503 ==
    \A i \in 1..Len(llm_calls) :
        ( /\ FailedCall(i)
          /\ \/ Contains(llm_calls[i].text, <<"4", "2", "9">>)
             \/ Contains(llm_calls[i].text, <<"5", "0", "0">>)
             \/ Contains(llm_calls[i].text, <<"5", "0", "3">>) )
        => ~(i = Len(llm_calls) /\ llm_out.kind = "reraised")

\* ========================================================================
\* Properties of the chunker (checked under SpecChunker)
\* ========================================================================
CeilDiv(a, b) == (a + b - 1) \div b

\* C8: for 0 <= overlap_words < chunk_size_words (the defaults 400 and 50
\* among them) and a page of n >= 1 words, chunk_page_text returns
\* ceil((n - overlap_words) / (chunk_size_words - overlap_words)) chunks when
\* n > chunk_size_words, and exactly 1 otherwise.
C8_ChunkCount ==
    (cpt.returned /\ cpt.n >= 1 /\ overlap_words < chunk_size_words) =>
        Len(cpt.chunks) =
            IF cpt.n > chunk_size_words
            THEN CeilDiv(cpt.n - overlap_words, chunk_size_words - overlap_words)
            ELSE 1

C8_Witness ==
    /\ cpt.returned
    /\ chunk_size_words = DefaultChunkSizeWords
    /\ overlap_words = DefaultOverlapWords
    /\ cpt.n > 2 * DefaultChunkSizeWords - DefaultOverlapWords
    /\ Len(cpt.chunks) = 3

\* C9: the chunks of chunk_pdf are in ascending page order; their global
\* indices, in output order, are 0,1,...,K-1 (not reset at a page boundary,
\* not advanced by a skipped page); within a page the local indices are
\* 0,1,...,m-1; and the global indices of a chunk_page_text call are a
\* contiguous run from the caller's global_chunk_start_index.
C9_ChunkIndices ==
    /\ \A i \in 1..Len(chunks) :
          /\ chunks[i].global_chunk_index = i - 1
          /\ i > 1 => chunks[i - 1].page_number <= chunks[i].page_number
          /\ chunks[i].local_chunk_index =
                IF i > 1 /\ chunks[i - 1].page_number = chunks[i].page_number
                THEN chunks[i - 1].local_chunk_index + 1
                ELSE 0
    /\ \A j \in 1..Len(cpt.chunks) :
          /\ cpt.chunks[j].global_chunk_index = cpt.gstart + j - 1
          /\ cpt.chunks[j].local_chunk_index = j - 1
          /\ cpt.chunks[j].page_number = cpt.page
    /\ (ck_entry = "chunk_pdf" /\ ck_pc = "done") =>
          /\ global_chunk_index = Len(chunks)
          /\ \A i \in 1..Len(chunks) :
                /\ chunks[i].page_number \in 1..Len(ck_pages)
                /\ ck_pages[chunks[i].page_number].alnum

C9_Witness ==
    /\ ck_entry = "chunk_pdf"
    /\ ck_pc = "done"
    /\ Len(ck_pages) = 3
    /\ ~ck_pages[2].alnum
    /\ Len(chunks) >= 4
    /\ chunks[1].page_number = 1
    /\ chunks[2].page_number = 1
    /\ chunks[Len(chunks)].page_number = 3

\* C10: a call with overlap_words >= chunk_size_words is rejected or treated
\* as clamped below the window size, so it terminates: no window iteration
\* runs with such an overlap unless it returns or moves the window forward.
C10_DegenerateOverlapTerminates ==
    [][(ck_pc = "loop" /\ overlap_words >= chunk_size_words)
          => (cpt'.returned \/ cpt'.start > cpt.start)]_vars

\* C11: for 0 <= overlap_words < chunk_size_words and a page of n >= 1 words,
\* no chunk of chunk_page_text extends past the last word, a chunk that ends
\* at the last word is the last one emitted and the call returns with it, the
\* call does return such a chunk as its last, and no two chunks cover the
\* same word range.
C11_LastWindowEndsAtLastWord ==
    (cpt.n >= 1 /\ overlap_words < chunk_size_words) =>
        /\ \A k \in 1..Len(cpt.chunks) :
              /\ cpt.chunks[k].text.to <= cpt.n
              /\ cpt.chunks[k].text.to = cpt.n =>
                    (k = Len(cpt.chunks) /\ cpt.returned)
              /\ \A j \in 1..Len(cpt.chunks) :
                    j # k => cpt.chunks[j].text # cpt.chunks[k].text
        /\ cpt.returned =>
              /\ Len(cpt.chunks) >= 1
              /\ cpt.chunks[Len(cpt.chunks)].text.to = cpt.n

C11_Witness ==
    /\ cpt.returned
    /\ overlap_words >= 1
    /\ overlap_words < chunk_size_words
    /\ Len(cpt.chunks) >= 2
    /\ cpt.chunks[Len(cpt.chunks)].text.to = cpt.n
    /\ cpt.chunks[Len(cpt.chunks)].text.to
          - cpt.chunks[Len(cpt.chunks)].text.from < chunk_size_words

\* The words two chunks have in common.
SharedWords(a, b) ==
    Cardinality((a.text.from .. a.text.to - 1) \cap (b.text.from .. b.text.to - 1))

\* C12: for 0 <= overlap_words < chunk_size_words and a page of n >= 1 words,
\* chunk k (0-based) starts at word k * (chunk_size_words - overlap_words);
\* every chunk but possibly the last holds exactly chunk_size_words words;
\* consecutive chunks share exactly overlap_words words; and every word of
\* the page is in some chunk, the chunks being slices taken left to right.
C12_WindowPositions ==
    (cpt.n >= 1 /\ overlap_words < chunk_size_words) =>
        /\ \A k \in 1..Len(cpt.chunks) :
              /\ cpt.chunks[k].text.from =
                    (k - 1) * (chunk_size_words - overlap_words)
              /\ cpt.chunks[k].text.from < cpt.chunks[k].text.to
              /\ (k < Len(cpt.chunks) \/ ~cpt.returned) =>
                    cpt.chunks[k].text.to - cpt.chunks[k].text.from
                       = chunk_size_words
              /\ k < Len(cpt.chunks) =>
                    /\ SharedWords(cpt.chunks[k], cpt.chunks[k + 1]) = overlap_words
                    /\ cpt.chunks[k].text.to < cpt.chunks[k + 1].text.to
        /\ cpt.returned =>
              \A w \in 0..(cpt.n - 1) :
                  \E k \in 1..Len(cpt.chunks) :
                      cpt.chunks[k].text.from <= w /\ w < cpt.chunks[k].text.to

C12_Witness ==
    /\ cpt.returned
    /\ chunk_size_words = DefaultChunkSizeWords
    /\ overlap_words = DefaultOverlapWords
    /\ Len(cpt.chunks) = 3
    /\ cpt.chunks[2].text.from = DefaultChunkSizeWords - DefaultOverlapWords
    /\ cpt.chunks[3].text.from = 2 * (DefaultChunkSizeWords - DefaultOverlapWords)
    /\ cpt.chunks[3].text.to = cpt.n
    /\ SharedWords(cpt.chunks[2], cpt.chunks[3]) = DefaultOverlapWords

\* C13: in chunk_pdf a page without an alphanumeric character is never
\* passed to chunk_page_text, has no chunk in the output, and does not move
\* the running global index: at the head of the page loop the index is the
\* number of chunks emitted, and global indices go up by one from each chunk
\* to the next across the skipped page.
C13_EmptyPageSkipped ==
    ck_entry = "chunk_pdf" =>
        /\ cpt.page # 0 => ck_pages[cpt.page].alnum
        /\ \A i \in 1..Len(chunks) :
              /\ ck_pages[chunks[i].page_number].alnum
              /\ i > 1 => chunks[i].global_chunk_index
                             = chunks[i - 1].global_chunk_index + 1
        /\ ck_pc \in {"page", "done"} => global_chunk_index = Len(chunks)
        /\ ck_pc = "loop" => cpt.gstart = Len(chunks)

C13_Witness ==
    /\ ck_entry = "chunk_pdf"
    /\ ck_pc = "done"
    /\ Len(ck_pages) = 3
    /\ ck_pages[2] = PageOf(1, FALSE)
    /\ \E i \in 2..Len(chunks) :
          /\ chunks[i - 1].page_number = 1
          /\ chunks[i].page_number = 3
          /\ chunks[i].global_chunk_index = i - 1

\* Two chunks agree on their text and on all their metadata.
SameButId(a, b) ==
    /\ a.text = b.text
    /\ a.pdf_type = b.pdf_type
    /\ a.page_number = b.page_number
    /\ a.local_chunk_index = b.local_chunk_index
    /\ a.global_chunk_index = b.global_chunk_index

Alphanumerics == Digits \cup {"a", "b"}

AnyAlnum(chars) == \E i \in 1..Len(chars) : chars[i] \in Alphanumerics

\* C15: process_single_pdf treats a page whose text and tables together hold
\* no alphanumeric character as empty: for every document type, reading the
\* pages leaves such a page out of pages_to_process and starts no call for it.
C15_NonAlnumPageNotDispatched ==
    [][ex_pc = "read" =>
          \A i \in 1..Len(doc_pages) :
              ~AnyAlnum(doc_pages[i].text \o doc_pages[i].tables_markdown) =>
                  /\ page_calls'[i].state = "none"
                  /\ \A j \in 1..Len(pages_to_process') :
                        pages_to_process'[j] # i]_vars

\* C16: at every moment of a process_single_pdf run at most MAX_PAGE_WORKERS
\* page calls (each inside one ask_llm call) are in flight, however many
\* pages passed the filters.
C16_InFlightPageCallsBounded ==
    Cardinality(Running) <= MAX_PAGE_WORKERS

C16_Witness ==
    /\ ex_pc = "pool"
    /\ Len(pages_to_process) > MAX_PAGE_WORKERS
    /\ Cardinality(Running) = MAX_PAGE_WORKERS
    /\ Queued # {}

\* The item lists the page calls returned, concatenated by ascending page
\* number from page i on (a page whose call raised, or that was skipped,
\* has none).
RECURSIVE ItemsInPageOrder(_)
ItemsInPageOrder(i) ==
    IF i > Len(page_calls) THEN <<>>
    ELSE (IF page_calls[i].state = "returned" THEN page_calls[i].items ELSE <<>>)
            \o ItemsInPageOrder(i + 1)

SomePageRaised == \E i \in 1..Len(page_calls) : page_calls[i].state = "raised"

\* C1: when two or more pages survive the filters, structured_data is the
\* concatenation of the per-page item lists in ascending page-number order,
\* whatever the order in which the futures of the pool complete.
C1_FlattenedInPageOrder ==
    (ex_pc = "done" /\ Len(pages_to_process) >= 2) =>
        /\ ex_out.kind = "returned"
        /\ structured = ItemsInPageOrder(1)

C1_Witness ==
    /\ ex_pc = "done"
    /\ Len(pages_to_process) = 3
    /\ DictKeys(all_results_by_page) = <<3, 1, 2>>
    /\ Len(page_calls[1].items) = 3
    /\ Len(page_calls[2].items) = 0
    /\ Len(page_calls[3].items) = 1
    /\ Len(structured) = 4

\* C2: for any number of surviving pages, one included, a page whose ask_llm
\* call raises does not make process_single_pdf raise: the page contributes
\* an empty list and the items of the other pages are in structured_data.
C2_PageFailureNeverRaises ==
    SomePageRaised =>
        /\ ex_out.kind # "raised"
        /\ ex_pc = "done" => structured = ItemsInPageOrder(1)

\* C3: a costing document with two surviving pages, the first answered with
\* a 3-element array and the second failing with a non-retryable error:
\* process_single_pdf returns normally and structured_data is exactly the 3
\* items of the first page.
C3_Scenario ==
    /\ pdf_type = "construction_costing"
    /\ Len(pages_to_process) = 2
    /\ page_calls[pages_to_process[1]].state = "returned"
    /\ Len(page_calls[pages_to_process[1]].items) = 3
    /\ page_calls[pages_to_process[2]].state = "raised"
    /\ page_calls[pages_to_process[2]].exc = "reraised"

C3_FailedPageContributesNothing ==
    C3_Scenario =>
        /\ ex_out.kind # "raised"
        /\ ex_pc = "done" =>
              /\ ex_out.kind = "returned"
              /\ Len(structured) = 3
              /\ structured = page_calls[pages_to_process[1]].items

C3_Witness == C3_Scenario /\ ex_pc = "done" /\ Len(structured) = 3

\* ========================================================================
\* Properties of the batch extractor (checked under SpecMany)
\* ========================================================================
\* C17: at every moment of a process_many_pdfs run at most MAX_DOC_WORKERS
\* documents are in extraction and the extraction LLM calls in flight over
\* all documents are at most MAX_DOC_WORKERS * MAX_PAGE_WORKERS.
C17_DocsAndCallsBounded ==
    /\ Cardinality(RunningDocs) <= MAX_DOC_WORKERS
    /\ TotalInFlight(1) <= MAX_DOC_WORKERS * MAX_PAGE_WORKERS

C17_Witness ==
    /\ many_pc = "pool"
    /\ Cardinality(RunningDocs) = MAX_DOC_WORKERS
    /\ QueuedDocs # {}
    /\ TotalInFlight(1) = MAX_DOC_WORKERS * MAX_PAGE_WORKERS

\* The paths whose extraction succeeds.
Extractable ==
    {i \in 1..Len(pdf_paths) : ExtractionOutcome(pdf_paths[i]) = "returned"}

AllClassified ==
    \A i \in 1..Len(pdf_paths) : pdf_paths[i].classifier = "returned"

ResultPaths == {results[k] : k \in 1..Len(results)}

\* C18: for every batch of one or more documents that are all classified,
\* process_many_pdfs does not raise when the extraction of a document
\* raises: it returns, and its results are exactly the documents whose
\* extraction succeeded.
C18_ExtractionFailureCaught ==
    (many_pc = "done" /\ Len(pdf_paths) >= 1 /\ AllClassified) =>
        /\ many_out.kind = "returned"
        /\ ResultPaths = Extractable

\* C19: in a batch of two or more documents process_many_pdfs returns, and
\* its results are exactly the documents that were classified and whose
\* extraction succeeded, whichever document failed at whichever stage.
C19_AnyFailureIsolated ==
    (many_pc = "done" /\ Len(pdf_paths) >= 2) =>
        /\ many_out.kind = "returned"
        /\ ResultPaths =
              {i \in Extractable : pdf_paths[i].classifier = "returned"}

\* ========================================================================
\* Properties of the persistence loader (checked under SpecLoader)
\* ========================================================================
\* The rows of the three entity tables.
ChildRows == tables.cost_items \o tables.project_tasks \o tables.regulatory_rules

\* The header row of this run is in documents_master and its id was returned
\* to load_document_into_system.
HeaderInserted ==
    /\ document_id # 0
    /\ \E k \in 1..Len(tables.documents_master) :
          tables.documents_master[k].load_id = document_id

\* C20: in every load_document_into_system run a structured row or a chunk
\* is written only after the header insert has completed and returned its
\* id, which is the id they carry; when the header insert fails nothing is
\* written.
C20_HeaderBeforeChildren ==
    /\ (ChildRows # <<>> \/ collection # <<>>) => HeaderInserted
    /\ \A k \in 1..Len(ChildRows) : ChildRows[k].document_id = document_id
    /\ \A k \in 1..Len(collection) :
          collection[k].metadata.document_id = document_id
    /\ (ld_out.kind = "raised" /\ ~HeaderInserted) =>
          (ChildRows = <<>> /\ collection = <<>>)

C20_Witness ==
    /\ ld_out.kind = "returned"
    /\ HeaderInserted
    /\ Len(tables.cost_items) >= 1
    /\ Len(collection) >= 2

\* C21: every load_document_into_system call that returns gives back the id
\* the header insert generated; every structured row and every chunk the
\* call wrote carries that id, and pdf_ingestion_flow returns the same id
\* under the key document_id.
C21_OneDocumentId ==
    /\ ld_out.kind = "returned" =>
          /\ HeaderInserted
          /\ ld_out.value =
                tables.documents_master[Len(tables.documents_master)].load_id
          /\ \A k \in 1..Len(ChildRows) : ChildRows[k].document_id = ld_out.value
          /\ \A k \in 1..Len(collection) :
                collection[k].metadata.document_id = ld_out.value
    /\ flow_out.kind = "returned" =>
          /\ ld_out.kind = "returned"
          /\ flow_out.document_id = ld_out.value

C21_Witness ==
    /\ flow_out.kind = "returned"
    /\ flow_out.document_id = document_id
    /\ Len(ChildRows) >= 2
    /\ Len(collection) >= 2

\* The entries of a list that are dicts, in order.
IsMapping(entry) == entry.py = "dict"

Mappings(entries) == SelectSeq(entries, IsMapping)

\* C22: normalize_parsed_data returns, for every input, the flat list of the
\* mapping-typed entries of the input in their original order: a dict with
\* the key "structured_data" is replaced by that key's value, a dict without
\* it becomes a one-element list, an input that is not a list is wrapped in
\* one, and every entry that is not a dict is discarded.
C22_NormalizeKeepsMappings ==
    LET out == normalize_parsed_data(parsed_data)
        wrapped == parsed_data.py = "dict" /\ "structured_data" \in DOMAIN parsed_data
    IN  /\ \A i \in 1..Len(out) : out[i].py = "dict"
        /\ parsed_data.py = "list" => out = Mappings(parsed_data.elems)
        /\ (wrapped /\ parsed_data.structured_data.py = "list") =>
              out = Mappings(parsed_data.structured_data.elems)
        /\ (wrapped /\ parsed_data.structured_data.py # "list") =>
              out = Mappings(<<parsed_data.structured_data>>)
        /\ (parsed_data.py = "dict" /\ ~wrapped) => out = <<parsed_data>>
        /\ parsed_data.py \notin {"list", "dict"} => out = <<>>

\* A schedule load of a wrapped list that holds a non-dict before a dict
\* wrote the row of the dict alone.
C22_Witness ==
    /\ ld_pdf_type = "project_schedule"
    /\ parsed_data.py = "dict"
    /\ "structured_data" \in DOMAIN parsed_data
    /\ parsed_data.structured_data.py = "list"
    /\ Len(parsed_data.structured_data.elems) = 2
    /\ parsed_data.structured_data.elems[1].py # "dict"
    /\ parsed_data.structured_data.elems[2].py = "dict"
    /\ Len(tables.project_tasks) = 1
    /\ tables.project_tasks[1].task_name =
          parsed_data.structured_data.elems[2].task_name

\* The document types load_structured_data has a table for.
SupportedLoadTypes == {"construction_costing", "project_schedule", "ura_circular"}

\* C23: for every structured_items input and every supported document type
\* load_structured_data completes without raising on the shape of an entry:
\* a non-dict entry, a record with missing fields and a costing block whose
\* "items" is missing, null or not a list never make the call raise.
C23_MalformedEntriesNeverRaise ==
    ld_pdf_type \in SupportedLoadTypes =>
        ~(ld_out.kind = "raised" /\ ld_out.value = 5)

\* The positions of the chunks handed to the loader that have a text with
\* something other than whitespace in it.
KeptPositions ==
    {k \in 1..Len(ld_chunks) :
        /\ "text" \in DOMAIN ld_chunks[k]
        /\ \E i \in 1..Len(ld_chunks[k].text) : ld_chunks[k].text[i] \notin Whitespace}

\* C24: when load_document_into_system is called with a document type other
\* than construction_costing, project_schedule and ura_circular, the header
\* row is inserted, no row is written to cost_items, project_tasks or
\* regulatory_rules, load_structured_data raises nothing (the call can only
\* fail in the header insert or in the vector store), and the kept chunks
\* are embedded and written to the vector store.
C24_UnsupportedTypeSkipsEntities ==
    (ld_pdf_type \notin SupportedLoadTypes /\ ld_pdf_type # "none") =>
        /\ ChildRows = <<>>
        /\ ld_out.kind = "raised" => ld_out.value \in {1, 2, 4}
        /\ (ld_out.kind = "raised" /\ ld_out.value = 4) => HeaderInserted
        /\ ld_out.kind = "returned" =>
              /\ HeaderInserted
              /\ Len(collection) = Cardinality(KeptPositions)
              /\ embed_calls # <<>> \/ KeptPositions = {}
              /\ \A k \in 1..Len(collection) :
                    collection[k].embedding = Embedding(collection[k].document)

C24_Witness ==
    /\ ld_pdf_type \notin SupportedLoadTypes
    /\ ld_out.kind = "returned"
    /\ normalize_parsed_data(parsed_data) # <<>>
    /\ HeaderInserted
    /\ ChildRows = <<>>
    /\ Len(collection) >= 1
    /\ Len(collection) < Len(ld_chunks)

\* The position in ld_chunks of the j-th kept chunk.
KeptPosition(j) ==
    CHOOSE p \in KeptPositions : Cardinality({q \in KeptPositions : q < p}) = j - 1

\* C25: every chunk store_chunks_in_chroma_with_doc_id writes to the vector
\* store has an id (its own, or a generated one when the input chunk had
\* none), a text that is not blank and metadata stamped with the document
\* id; a chunk whose text is missing or blank is never written; and the
\* ids, texts, metadatas and embeddings stored are as many as the kept
\* chunks and aligned with them position by position in input order.
C25_StoredChunksAligned ==
    /\ Len(collection) \in {0, Cardinality(KeptPositions)}
    /\ \A j \in 1..Len(collection) :
          LET c == ld_chunks[KeptPosition(j)]
          IN  /\ collection[j].id # ""
              /\ "id" \in DOMAIN c => collection[j].id = c.id
              /\ collection[j].document = c.text
              /\ Strip(collection[j].document, Whitespace) # <<>>
              /\ collection[j].embedding = Embedding(c.text)
              /\ collection[j].metadata.document_id = document_id
              /\ document_id # 0

C25_Witness ==
    /\ Len(ld_chunks) = 2
    /\ KeptPositions = {2}
    /\ "id" \notin DOMAIN ld_chunks[2]
    /\ Len(collection) = 1
    /\ collection[1].document = ld_chunks[2].text

\* C26: while the chunks of a document are persisted, every call to the
\* embedding endpoint carries at most 64 texts.
C26_EmbeddingCallsBatched ==
    \A i \in 1..Len(embed_calls) : embed_calls[i] <= EmbedBatchSize

\* The dict items of the "items" lists of the blocks, in order.
RECURSIVE EmittedItems(_)
EmittedItems(blocks) ==
    IF blocks = <<>> THEN <<>>
    ELSE Mappings(ItemsOf(Head(blocks)).elems) \o EmittedItems(Tail(blocks))

\* load_structured_data has returned in this run.
StructuredDone ==
    \/ AtStep("chunks")
    \/ ld_step = Len(LoadSteps) + 1
    \/ ld_out.kind = "returned"
    \/ ld_out.kind = "raised" /\ ld_out.value = 4

C28_CostTypeRestricted ==
    \A k \in 1..Len(tables.cost_items) : tables.cost_items[k].cost_type \in CostTypes

\* C29: when pdf_ingestion_flow fails at any stage, no Document row, no
\* structured row and no chunk of that run is persisted, and no document id
\* is returned to the caller.
C29_FailedRunPersistsNothing ==
    flow_out.kind = "raised" =>
        /\ tables = EmptyTables
        /\ collection = <<>>
        /\ flow_out.document_id = 0

\* ========================================================================
\* Properties of safe_json_loads (checked under SpecParser)
\* ========================================================================
\* The call returned exactly the array of the values.
ReturnedArray(values) ==
    /\ json_out.value.ok
    /\ json_out.value.isList
    /\ json_out.value.items = [k \in 1..Len(values) |-> ValueOf(values[k])]

\* The tokens at the even positions of a text: the values of an array text.
ArrayValues(text) == [k \in 1..((Len(text) - 1) \div 2) |-> text[2 * k]]

\* The text is the text of a JSON array of values.
IsArrayText(text) ==
    /\ Len(text) >= 2
    /\ \A k \in 1..Len(ArrayValues(text)) : ArrayValues(text)[k] \in ValueTokens
    /\ text = ArrayText(ArrayValues(text))

\* The first k tokens of the response and the tokens after them.
Leading(k) == SubSeq(json_raw, 1, k)

Trailing(k) == SubSeq(json_raw, k + 1, Len(json_raw))

\* A JSON array wrapped in a code fence gives exactly that array.
FencedArrayRecovered ==
    \A o \in FenceOpenings, c \in FenceClosings :
        LET text == SubSeq(json_raw, Len(o) + 1, Len(json_raw) - Len(c))
        IN  (/\ json_out.called
             /\ IsArrayText(text)
             /\ json_raw = Fenced(o, text, c)) => ReturnedArray(ArrayValues(text))

NoClosingBracket(text) == \A i \in 1..Len(text) : text[i] # "]"

DefaultWaits == <<1, 2, 4, 8, 15, 15>>

\* C35: in ask_llm the wait after the failed attempt number k (0-based) is
\* min(2^k, 15) seconds, that is 1, 2, 4, 8, 15, 15 for six attempts: each
\* wait is the double of the one before up to the cap of 15, waits never
\* decrease, and a wait is taken only between endpoint calls (after a call
\* that failed, with no call of the same invocation running).
C35_BackoffDoublesToCap ==
    /\ \A i \in 1..Len(llm_waits) :
          /\ i <= Len(DefaultWaits) => llm_waits[i] = DefaultWaits[i]
          /\ llm_waits[i] <= BackoffCap
          /\ i > 1 => /\ llm_waits[i] = Min(2 * llm_waits[i - 1], BackoffCap)
                      /\ llm_waits[i] >= llm_waits[i - 1]
          /\ i <= Len(llm_calls)
          /\ ~llm_calls[i].ok
    /\ Len(llm_calls) <= Len(llm_waits) + 1
    /\ llm_pc = "sleep" => Len(llm_calls) = Len(llm_waits) + 1
    /\ llm_pc = "call" => Len(llm_calls) = Len(llm_waits)

C35_Witness ==
    /\ max_retries = DefaultMaxRetries
    /\ llm_waits = DefaultWaits
    /\ llm_out.kind = "exhausted"

\* C39: in ask_llm every backoff sleep is followed by another endpoint
\* attempt, so one call sleeps at most max_retries - 1 times.
C39_NoSleepAfterLastAttempt ==
    max_retries >= 1 => Len(llm_waits) <= max_retries - 1

\* ========================================================================
\* Further properties of the batch extractor (checked under SpecMany)
\* ========================================================================
\* The paths whose process_single_pdf call has started.
StartedDocs == {i \in 1..Len(doc_runs) : doc_runs[i].state \notin {"none", "queued"}}

\* C37: in process_many_pdfs every document is classified, one at a time
\* and in input order, before the extraction of any document starts: the
\* jobs are the paths classified so far in input order, and while a path is
\* still to be classified no process_single_pdf call has started and no
\* extraction call is in flight.
C37_ClassifiedBeforeExtraction ==
    /\ Len(jobs) <= Len(pdf_paths)
    /\ \A k \in 1..Len(jobs) : jobs[k] = k
    /\ (StartedDocs # {} \/ QueuedDocs # {} \/ TotalInFlight(1) > 0) =>
          /\ Len(jobs) = Len(pdf_paths)
          /\ many_pc # "classify"
    /\ (many_pc = "classify" /\ Len(jobs) < Len(pdf_paths)) => TotalInFlight(1) = 0

C37_Witness ==
    /\ Len(pdf_paths) = MaxDocs
    /\ jobs = [k \in 1..MaxDocs |-> k]
    /\ many_pc = "pool"
    /\ TotalInFlight(1) >= 2

\* C40: process_many_pdfs called with an empty list of paths returns an
\* empty result list without raising.
C40_EmptyBatchReturnsEmpty ==
    pdf_paths = <<>> =>
        /\ many_out.kind # "raised"
        /\ results = <<>>
        /\ doc_workers = 0

\* ---------------------------------------------------------------------------
\* C32: process_single_pdf called with a type that has no extraction template
\* raises ValueError at the validation step: the PDF is never opened (no page
\* is read or kept), no page call to the gateway is queued, started or
\* finished, nothing is collected or flattened, and the call ends with the
\* error and no result.
C32_UnsupportedTypeRaisesFirst ==
    pdf_type \notin PROMPT_MAP =>
        /\ ex_pc \in {"validate", "done"}
        /\ Len(doc_pages) = Len(page_calls)
        /\ pages_to_process = <<>>
        /\ \A i \in 1..Len(page_calls) : page_calls[i] = NoPageCall
        /\ workers = 0
        /\ all_results_by_page = <<>>
        /\ structured = <<>>
        /\ ex_pc = "validate" => ex_out.kind = "none"
        /\ ex_pc = "done" => ex_out = [kind |-> "raised", exc |-> "ValueError"]

C32_Witness ==
    /\ pdf_type = "other"
    /\ ex_pc = "done"
    /\ ex_out = [kind |-> "raised", exc |-> "ValueError"]
    /\ Len(page_calls) >= 2

\* ---------------------------------------------------------------------------
\* C38: each type of the Document.type enumeration other than "other"
\* (construction_costing, project_schedule, construction_approval,
\* ura_circular) is accepted by process_single_pdf: the call never ends with
\* the unsupported-type ValueError.
EnumeratedTypes ==
    {"construction_costing", "project_schedule", "construction_approval", "ura_circular"}

C38_EnumeratedTypesAccepted ==
    pdf_type \in EnumeratedTypes =>
        ~(ex_pc = "done" /\ ex_out = [kind |-> "raised", exc |-> "ValueError"])

\* ---------------------------------------------------------------------------
\* C31: whatever text the gateway returns, _process_page_with_llm returns
\* (it never raises) and what it returns for the page is a list; a text that
\* parses neither directly nor after slicing from the first "[" to the last
\* "]" gives the empty list, and so does a text whose top-level JSON value is
\* no array.
Sliced(s) == SubSeq(s, IndexOf(s, "["), RIndexOf(s, "]"))

Unparseable(raw) ==
    LET s == StripFences(raw)
    IN  /\ ~json_loads(s).ok
        /\ \/ IndexOf(s, "[") = 0
           \/ RIndexOf(s, "]") = 0
           \/ ~json_loads(Sliced(s)).ok

TopLevelNotArray(raw) ==
    LET direct == json_loads(StripFences(raw))
    IN  direct.ok /\ ~direct.isList

NoBrackets(raw) ==
    \/ \A i \in 1..Len(raw) : raw[i] # "["
    \/ \A i \in 1..Len(raw) : raw[i] # "]"

C31_AnyResponseYieldsList ==
    json_out.page.state # "none" =>
        /\ json_out.page.state = "returned"
        /\ json_out.page.exc = "none"
        /\ json_out.page.page_number \in PageNumbers
        /\ DOMAIN json_out.page.items = 1..Len(json_out.page.items)
        /\ Unparseable(json_raw) => json_out.page.items = <<>>
        /\ TopLevelNotArray(json_raw) => json_out.page.items = <<>>
        /\ NoBrackets(json_raw) => json_out.page.items = <<>>

C31_Witness ==
    /\ json_raw = <<"nl", "{a}">>
    /\ json_out.type = "project_schedule"
    /\ json_out.page.state = "returned"
    /\ json_out.page.items = <<>>

\* ---------------------------------------------------------------------------
\* C36: no pool returns early. When process_single_pdf has returned, every
\* page that passed the filters has a finished page call, no other page has
\* one, and the per-page dict has exactly one entry per such page: the items
\* its call returned, or the empty list when its call raised. When
\* process_many_pdfs has returned, every document run has ended (returned or
\* raised) with no page call left, and the results hold each document whose
\* run returned exactly once and no other.
EntriesOf(pn) ==
    {j \in 1..Len(all_results_by_page) : all_results_by_page[j].key = pn}

SurvivingPages == {pages_to_process[i] : i \in 1..Len(pages_to_process)}

SinglePdfComplete ==
    /\ \A pn \in 1..Len(page_calls) :
          IF pn \in SurvivingPages
          THEN /\ page_calls[pn].state \in {"returned", "raised"}
               /\ Cardinality(EntriesOf(pn)) = 1
               /\ DictGet(all_results_by_page, pn) =
                     IF page_calls[pn].state = "returned"
                     THEN page_calls[pn].items ELSE <<>>
          ELSE /\ page_calls[pn] = NoPageCall
               /\ EntriesOf(pn) = {}
    /\ Len(all_results_by_page) = Len(pages_to_process)
    /\ Cardinality(SurvivingPages) = Len(pages_to_process)

ResultsOf(path) == {j \in 1..Len(results) : results[j] = path}

ManyPdfsComplete ==
    /\ \A path \in 1..Len(doc_runs) :
          /\ doc_runs[path].state \in {"returned", "raised"}
          /\ doc_runs[path].yielded
          /\ PagesLeft(path) = 0
          /\ Cardinality(ResultsOf(path)) =
                IF doc_runs[path].state = "returned" THEN 1 ELSE 0
    /\ \A j \in 1..Len(results) : results[j] \in 1..Len(doc_runs)
    /\ RunningDocs = {} /\ QueuedDocs = {}

C36_PoolsNeverReturnEarly ==
    /\ (ex_pc = "done" /\ ex_out.kind = "returned") => SinglePdfComplete
    /\ (many_pc = "done" /\ many_out.kind = "returned") => ManyPdfsComplete

C36_Witness ==
    /\ ex_pc = "done"
    /\ ex_out.kind = "returned"
    /\ Len(pages_to_process) = MaxPages
    /\ page_calls[1].state = "raised"
    /\ page_calls[MaxPages].state = "returned"
    /\ page_calls[MaxPages].items # <<>>

\* ---------------------------------------------------------------------------
\* C33: detect_pdf_type calls the gateway exactly once; when the cleaned
\* response body is not a single JSON object the call ends with the parse
\* error (and no second gateway call), and when the gateway raises the call
\* ends with that same error.
SingleObject(s) ==
    LET w == SelectSeq(s, NotWhitespace)
    IN  Len(w) = 1 /\ ValueOf(w[1]).kind = "dict"

C33_OneCallParseErrorFatal ==
    /\ cls_calls <= 1
    /\ cls_pc \in {"parse", "done"} => cls_calls = 1
    /\ cls_pc = "done" =>
          /\ cls_answer.kind # "returned" =>
                cls_out = [kind |-> "raised", exc |-> cls_answer.kind,
                           parsed |-> NotParsed]
          /\ (/\ cls_answer.kind = "returned"
              /\ ~SingleObject(CleanVerdict(cls_answer.text))) =>
                cls_out = [kind |-> "raised", exc |-> "JSONDecodeError",
                           parsed |-> NotParsed]

\* ---------------------------------------------------------------------------
\* C34: a POST to the upload endpoint that carries a file, whose ingestion
\* flow completes without error, is answered with HTTP 200 and a body whose
\* "status" field is "Ingestion triggered".
C34_UploadAnswersIngestionTriggered ==
    (/\ up_pc = "done"
     /\ request.file # NoFile
     /\ flow_calls # <<>>
     /\ request.flow = "returned") =>
        /\ response.status_code = 200
        /\ "status" \in DOMAIN response.body
        /\ response.body.status = "Ingestion triggered"

====
